---- MODULE Spec2Model ----
(***************************************************************************)
(* Job execution engine of the faker service: the job registry             *)
(* (services/jobService.js), the worker pool manager (workers/pool.js),    *)
(* the /generate, /generate-stream and /generate-stream-multi handlers     *)
(* (routes/generate.js, routes/stream.js) and the management routes        *)
(* (routes/management.js).                                                 *)
(*                                                                         *)
(* The service runs on one event loop.  A step of the model is one         *)
(* synchronous segment of JavaScript: a handler segment between two        *)
(* awaits, an event callback, or a promise continuation.  Continuations    *)
(* that are ready in the microtask queue run before any new event is       *)
(* taken, which is what the guard Quiescent expresses.                     *)
(***************************************************************************)
EXTENDS Integers, Sequences, FiniteSets, TLC

(***************************************************************************)
(* Bounds of the model.                                                    *)
(***************************************************************************)
NumHandlers == 2      \* HTTP generation requests the process receives
MaxFanThreads == 6    \* pool.threads.length when a fan-out is computed
MaxFanCount == 760    \* largest count of a fan-out
MaxGatherChunks == 3  \* chunks of a fan-out whose completion orders are explored
MaxCacheEntries == 1  \* entries a schema cache holds before it drops one
NumJobIds == 1        \* distinct X-Job-Id header values
CpuCount == 1         \* os.cpus().length

(***************************************************************************)
(* Program constants.                                                      *)
(***************************************************************************)
workerThreshold == 300
fanOutThreshold == 50
optimalChunkSize == 25
overSubscription == 5
minStreamChunk == 500
maxStreamChunk == 5000
minMultiChunk == 50
maxMultiChunk == 1000

Handlers == 1..NumHandlers
JobIds == 1..NumJobIds
NoJobId == 0                 \* no X-Job-Id header (undefined)
UnknownJobId == 0 - 1        \* the string 'unknown' of JobAbortedError
RequestIds == 1..(NumHandlers + 1)

\* Request bodies the clients send: the counts of the schema items of a
\* /generate body with its streaming option, the count of a /generate-stream
\* body, the counts of the schemas of a /generate-stream-multi body, and the
\* chunkSize field of the stream bodies.
GenerateBodies ==
  {[fields |-> "schema", items |-> <<2>>, streaming |-> FALSE],
   [fields |-> "schema", items |-> <<300>>, streaming |-> FALSE],
   [fields |-> "schemas", items |-> <<2, 300>>, streaming |-> FALSE],
   [fields |-> "schema", items |-> <<2>>, streaming |-> TRUE]}
StreamCounts == {50}
MultiBodies == {<<51>>, <<1, 1>>}
ChunkSizes == {50}

Min(a, b) == IF a < b THEN a ELSE b
Max(a, b) == IF a > b THEN a ELSE b
Ceil(a, b) == (a + b - 1) \div b

RECURSIVE SumSeq(_)
SumSeq(s) == IF s = <<>> THEN 0 ELSE Head(s) + SumSeq(Tail(s))

Put(m, k, v) == [x \in (DOMAIN m) \cup {k} |-> IF x = k THEN v ELSE m[x]]
Del(m, k) == [x \in (DOMAIN m) \ {k} |-> m[x]]
EmptyMap == [x \in {} |-> 0]

(***************************************************************************)
(* Job registry (JobService).  activeRequests is one Map holding both      *)
(* kinds of key: the numeric request id and the string 'job:<id>'.         *)
(***************************************************************************)
ReqKey(requestId) == <<"req", requestId>>
JobKey(jobId) == <<"job", jobId>>
IsReqKey(k) == k[1] = "req"
IsJobKey(k) == k[1] = "job"

\* registerRequest(jobId, abortController, count): the new registry and the id.
registerRequest(reg, jobId, abortController, count) ==
  LET requestId == reg.requestIdCounter + 1
      m1 == Put(reg.activeRequests, ReqKey(requestId),
                [requestId |-> requestId, jobId |-> jobId,
                 abortController |-> abortController, count |-> count])
      m2 == IF jobId # NoJobId THEN Put(m1, JobKey(jobId), requestId) ELSE m1
  IN [reg |-> [activeRequests |-> m2, requestIdCounter |-> requestId],
      requestId |-> requestId]

\* A variant of unregisterRequest that forgets the 'job:<id>' index entry.
unregisterRequest_KeepsJobKey(reg, requestId) ==
  [reg EXCEPT !.activeRequests = Del(reg.activeRequests, ReqKey(requestId))]

\* unregisterRequest(requestId)
unregisterRequest(reg, requestId) ==
  LET m == reg.activeRequests
  IN IF ReqKey(requestId) \in DOMAIN m
     THEN LET request == m[ReqKey(requestId)]
              m1 == IF request.jobId # NoJobId THEN Del(m, JobKey(request.jobId)) ELSE m
          IN [reg EXCEPT !.activeRequests = Del(m1, ReqKey(requestId))]
     ELSE reg

\* abortByRequestId(requestId): registry, controllers aborted, return value.
abortByRequestId(reg, requestId) ==
  LET m == reg.activeRequests
  IN IF ReqKey(requestId) \in DOMAIN m
     THEN [reg |-> unregisterRequest(reg, requestId),
           aborted |-> {m[ReqKey(requestId)].abortController},
           result |-> TRUE]
     ELSE [reg |-> reg, aborted |-> {}, result |-> FALSE]

\* A variant of abortByJobId that, for an unknown id, cancels every job.
abortByJobId_UnknownCancelsAll(reg, jobId) ==
  LET m == reg.activeRequests
  IN IF JobKey(jobId) \in DOMAIN m
     THEN abortByRequestId(reg, m[JobKey(jobId)])
     ELSE [reg |-> [activeRequests |-> EmptyMap, requestIdCounter |-> reg.requestIdCounter],
           aborted |-> {m[k].abortController : k \in {x \in DOMAIN m : IsReqKey(x)}},
           result |-> TRUE]

\* abortByJobId(jobId)
abortByJobId(reg, jobId) ==
  LET m == reg.activeRequests
  IN IF JobKey(jobId) \in DOMAIN m
     THEN abortByRequestId(reg, m[JobKey(jobId)])
     ELSE [reg |-> reg, aborted |-> {}, result |-> FALSE]

\* A variant of abortAll that clears the registry without signaling any handle.
abortAll_SignalsNothing(reg) ==
  [reg |-> [activeRequests |-> EmptyMap, requestIdCounter |-> 0],
   aborted |-> {},
   result |-> Cardinality({k \in DOMAIN reg.activeRequests : IsReqKey(k)})]

\* A variant of abortAll that resets the counter but leaves the map in place.
abortAll_KeepsEntries(reg) ==
  LET m == reg.activeRequests
      numeric == {k \in DOMAIN m : IsReqKey(k)}
  IN [reg |-> [activeRequests |-> m, requestIdCounter |-> 0],
      aborted |-> {m[k].abortController : k \in numeric},
      result |-> Cardinality(numeric)]

\* abortAll(): registry, controllers aborted, number of aborted requests.
abortAll(reg) ==
  LET m == reg.activeRequests
      numeric == {k \in DOMAIN m : IsReqKey(k)}
  IN [reg |-> [activeRequests |-> EmptyMap, requestIdCounter |-> 0],
      aborted |-> {m[k].abortController : k \in numeric},
      result |-> Cardinality(numeric)]

\* getActiveRequests(): the jobs listed by GET /requests.
getActiveRequests(reg) ==
  {reg.activeRequests[k] : k \in {x \in DOMAIN reg.activeRequests : IsReqKey(x)}}

\* getActiveCount()
getActiveCount(reg) ==
  Cardinality({k \in DOMAIN reg.activeRequests : IsReqKey(k)})

(***************************************************************************)
(* Error classes and the centralized error handler.                        *)
(***************************************************************************)
NoResponse == [status |-> 0, code |-> "", jobId |-> NoJobId, total |-> 0, schemasProcessed |-> 0]

Settled(name, jobId, n) == [name |-> name, jobId |-> jobId, n |-> n]
NothingPending == Settled("none", NoJobId, 0)

\* new JobAbortedError(jobId || 'unknown')
\* A variant of JobAbortedError: the cancelled call returns an empty result.
JobAbortedError_Swallowed(jobId) == Settled("ok", NoJobId, 0)

JobAbortedError(jobId) ==
  Settled("JobAbortedError", IF jobId # NoJobId THEN jobId ELSE UnknownJobId, 0)

\* setErrorHandler: the response built from a thrown error.
errorHandler(error) ==
  LET statusCode == CASE error.name = "ValidationError" -> 400
                      [] error.name = "JobAbortedError" -> 499
                      [] OTHER -> 500
      code == CASE error.name = "ValidationError" -> "VALIDATION_ERROR"
                [] error.name = "JobAbortedError" -> "JOB_ABORTED"
                [] error.name = "GenerationError" -> "GENERATION_ERROR"
                [] OTHER -> "INTERNAL_ERROR"
  IN [status |-> statusCode, code |-> code, jobId |-> error.jobId,
      total |-> 0, schemasProcessed |-> 0]

(***************************************************************************)
(* Dispatch policy and fan-out arithmetic.                                 *)
(***************************************************************************)
\* generatorService.shouldUseWorkers(count)
shouldUseWorkers(count) == count >= workerThreshold

\* The chunk counts of the loop `for (i = 0; i < count; i += chunkSize)`.
RECURSIVE ChunkList(_, _)
ChunkList(count, chunkSize) ==
  IF count <= 0 THEN <<>>
  ELSE <<Min(chunkSize, count)>> \o ChunkList(count - chunkSize, chunkSize)

\* A variant of FanOutChunks that submits workerCount tasks of chunkSize records.
FanOutChunks_EqualChunks(count, streaming, availableThreads) ==
  IF count >= fanOutThreshold /\ ~streaming
  THEN LET workerCount == Min(availableThreads * overSubscription,
                              Ceil(count, optimalChunkSize))
           chunkSize == Ceil(count, workerCount)
       IN [k \in 1..workerCount |-> chunkSize]
  ELSE <<count>>

\* A variant of FanOutChunks that creates only the full chunks.
FanOutChunks_DropsRemainder(count, streaming, availableThreads) ==
  IF count >= fanOutThreshold /\ ~streaming
  THEN LET workerCount == Min(availableThreads * overSubscription,
                              Ceil(count, optimalChunkSize))
       IN IF workerCount = 0
          THEN <<count>>
          ELSE [k \in 1..(count \div Ceil(count, workerCount)) |->
                  Ceil(count, workerCount)]
  ELSE <<count>>

\* GeneratorPool.generate: the pool tasks submitted for (count, streaming)
\* when the pool has availableThreads threads.  With no thread workerCount is
\* 0 and chunkSize = Math.ceil(count / 0) is Infinity: the loop runs once and
\* pushes Math.min(Infinity, count).
FanOutChunks(count, streaming, availableThreads) ==
  IF count >= fanOutThreshold /\ ~streaming
  THEN LET workerCount == Min(availableThreads * overSubscription,
                              Ceil(count, optimalChunkSize))
       IN IF workerCount = 0
          THEN <<count>>
          ELSE ChunkList(count, Ceil(count, workerCount))
  ELSE <<count>>

\* Stream chunk size clamps.
safeChunkSize(chunkSize) == Max(minStreamChunk, Min(chunkSize, maxStreamChunk))

\* A variant of safeChunkSizeMulti that takes the chunk size as given.
safeChunkSizeMulti_Unclamped(chunkSize) == chunkSize

safeChunkSizeMulti(chunkSize) == Max(minMultiChunk, Min(chunkSize, maxMultiChunk))

\* Records a finished worker task returns for a chunk of n records.
TaskData(n) == n

minThreads == CpuCount
maxThreads == CpuCount * 2

(***************************************************************************)
(* State.                                                                  *)
(***************************************************************************)
VARIABLES
  activeRequests,    \* JobService.activeRequests
  requestIdCounter,  \* JobService.requestIdCounter
  hs,                \* per HTTP request: the handler's locals and position
  calls,             \* per handler: its GeneratorPool.generate call in flight
  activeJobs,        \* GeneratorPool.activeJobs: jobId -> abortController (by owner)
  poolQueue,         \* Piscina task queue (FIFO)
  poolRunning,       \* tasks executing on a worker thread
  threads,           \* pool.threads.length
  stats,             \* GeneratorPool.stats
  issued,            \* history: request ids returned by registerRequest
  fan,               \* one fan-out of GeneratorPool.generate, with its results array
  redisEnabled,      \* GeneratorPool.redisEnabled
  redisClient,       \* GeneratorPool.redisClient is not null
  redisKeys,         \* the store: job ids whose stop key holds 'true'
  schemaCache,       \* schemaService: cache key -> prepared schema
  workerSchemaCache, \* worker: cache key -> prepared schema
  schemaCall,        \* the last call of a schema function with what it returned
  lifecycle          \* GeneratorPool.shutdown: its position and what it has released

StoreVars == <<redisEnabled, redisClient, redisKeys>>
SchemaVars == <<schemaCache, workerSchemaCache, schemaCall>>

vars == <<activeRequests, requestIdCounter, hs, calls, activeJobs,
          poolQueue, poolRunning, threads, stats, issued, fan,
          StoreVars, SchemaVars, lifecycle>>

reg == [activeRequests |-> activeRequests, requestIdCounter |-> requestIdCounter]
SetReg(r) == /\ activeRequests' = r.activeRequests
             /\ requestIdCounter' = r.requestIdCounter
RegUnchanged == UNCHANGED <<activeRequests, requestIdCounter>>
PoolUnchanged == UNCHANGED <<calls, activeJobs, poolQueue, poolRunning, threads, stats>>

\* The locals of a fan-out: the chunk counts, the array Promise.all fills, the
\* order in which the tasks settled (history) and the flattened result.
IdleFan ==
  [pc |-> "idle", count |-> 0, chunks |-> <<>>, results |-> <<>>,
   order |-> <<>>, allData |-> <<>>]

\* The process runs without the abort signal store.
NoStore ==
  /\ redisEnabled = FALSE
  /\ redisClient = FALSE
  /\ redisKeys = {}

NoSchemaCall == [fn |-> "none"]

\* No schema has been prepared or validated yet.
NoSchemaCalls ==
  /\ schemaCache = EmptyMap
  /\ workerSchemaCache = EmptyMap
  /\ schemaCall = NoSchemaCall

\* The process serves requests: shutdown has not been called.
Serving == [pc |-> "serving", poolDestroyed |-> FALSE, quitCalled |-> FALSE]

IdleHandler ==
  [pc |-> "idle", kind |-> "none", jobId |-> NoJobId, requestId |-> 0,
   aborted |-> FALSE, closed |-> FALSE, fields |-> "none",
   streaming |-> FALSE, items |-> <<>>, nItems |-> 0,
   chunkSize |-> 0, inner |-> FALSE, i |-> 0, pending |-> NothingPending,
   totalSent |-> 0, chunkIndex |-> 0, collectionSent |-> 0,
   body |-> <<>>, ended |-> FALSE, resultsLen |-> 0, totalGenerated |-> 0,
   response |-> NoResponse,
   \* observation of the job's effect on the process-wide counters
   nCompleted |-> 0, nAborted |-> 0, nGenerated |-> 0]

NoCall ==
  [active |-> FALSE, aborted |-> FALSE, jobId |-> NoJobId, count |-> 0,
   streaming |-> FALSE, fanOut |-> FALSE, chunks |-> <<>>, nDone |-> 0, rejected |-> "none"]

Init ==
  /\ activeRequests = EmptyMap
  /\ requestIdCounter = 0
  /\ hs = [h \in Handlers |-> IdleHandler]
  /\ calls = [h \in Handlers |-> NoCall]
  /\ activeJobs = EmptyMap
  /\ poolQueue = <<>>
  /\ poolRunning = <<>>
  /\ threads = minThreads
  /\ stats = [totalGenerated |-> 0, completedJobs |-> 0, abortedJobs |-> 0]
  /\ issued = <<>>
  /\ fan = IdleFan
  /\ NoStore
  /\ NoSchemaCalls
  /\ lifecycle = Serving

(***************************************************************************)
(* Scheduling: a promise continuation that is ready runs before the event  *)
(* loop takes the next event.                                              *)
(***************************************************************************)
AllDone(c) == c.nDone = Len(c.chunks)
CallReady(h) == calls[h].active /\ (calls[h].rejected # "none" \/ AllDone(calls[h]))
Runnable(h) == hs[h].pc \in {"loop", "resume"} \/ CallReady(h)
Quiescent == \A h \in Handlers : ~Runnable(h)

\* Handler invocations are interchangeable: a request takes the lowest slot
\* that has served none.
FreeSlot(h) == hs[h].pc = "idle" /\ \A g \in Handlers : g < h => hs[g].pc # "idle"

TasksOf(h) == {k \in 1..Len(poolQueue) : poolQueue[k].owner = h}
RunningOf(h) == {k \in 1..Len(poolRunning) : poolRunning[k].owner = h}
Outstanding(h) == TasksOf(h) # {} \/ RunningOf(h) # {}

\* The tasks of a settled call stay in the pool, but nothing awaits them.
NoOwner == 0
Orphan(t) == [owner |-> NoOwner, count |-> t.count]
Disown(s, h) == [k \in 1..Len(s) |-> IF s[k].owner = h THEN Orphan(s[k]) ELSE s[k]]

RECURSIVE Without(_, _)
Without(s, owners) ==
  IF s = <<>> THEN <<>>
  ELSE IF Head(s).owner \in owners THEN Without(Tail(s), owners)
       ELSE <<Head(s)>> \o Without(Tail(s), owners)

RemoveAt(s, k) == SubSeq(s, 1, k - 1) \o SubSeq(s, k + 1, Len(s))

\* abortController.abort() on a set of handlers' registry controllers.
SignalHandles(H, hmap) ==
  [h \in Handlers |->
     IF h \in H
     THEN [hmap[h] EXCEPT !.aborted = TRUE]
     ELSE hmap[h]]

(***************************************************************************)
(* GeneratorPool.                                                          *)
(***************************************************************************)
\* Piscina hands queued tasks to worker threads in FIFO order while fewer than
\* maxThreads tasks execute; threads are added on demand.
RECURSIVE Dispatch(_, _)
Dispatch(queue, running) ==
  IF queue = <<>> \/ Len(running) >= maxThreads
  THEN [queue |-> queue, running |-> running]
  ELSE Dispatch(Tail(queue), Append(running, Head(queue)))

SetPool(queue, running, T) ==
  LET d == Dispatch(queue, running)
  IN /\ poolQueue' = d.queue
     /\ poolRunning' = d.running
     /\ threads' = Max(T, Len(d.running))

\* generate(), up to its await: a fresh AbortController, activeJobs.set when a
\* job id was given, and one pool.run per chunk, all on that controller's signal.
generate(h, count, streaming, jobId) ==
  LET chunks == FanOutChunks(count, streaming, threads)
      tasks == [k \in 1..Len(chunks) |-> [owner |-> h, count |-> chunks[k]]]
  IN /\ calls' = [calls EXCEPT ![h] =
                    [active |-> TRUE, aborted |-> FALSE, jobId |-> jobId, count |-> count,
                     streaming |-> streaming,
                     fanOut |-> (count >= fanOutThreshold /\ ~streaming),
                     chunks |-> chunks, nDone |-> 0, rejected |-> "none"]]
     /\ activeJobs' = IF jobId # NoJobId THEN Put(activeJobs, jobId, h) ELSE activeJobs
     /\ SetPool(poolQueue \o tasks, poolRunning, threads)
     /\ UNCHANGED stats

\* abortController.abort() on the controllers of the generate calls of H: Piscina
\* rejects every queued or running task that carries the signal with AbortError,
\* drops it from the queue or terminates its worker.
AbortSignals(H) ==
  LET hit(h) == h \in H /\ ~calls[h].aborted
      Hit == {h \in Handlers : hit(h)}
      killed == Cardinality({k \in 1..Len(poolRunning) : poolRunning[k].owner \in Hit})
  IN /\ calls' = [h \in Handlers |->
                    IF hit(h)
                    THEN [calls[h] EXCEPT
                            !.aborted = TRUE,
                            !.rejected = IF @ = "none" /\ Outstanding(h)
                                         THEN "AbortError" ELSE @]
                    ELSE calls[h]]
     /\ SetPool(Without(poolQueue, Hit), Without(poolRunning, Hit),
                Max(minThreads, threads - killed))

\* abortJob(jobId): the controllers to abort and the return value.
abortJob(jobId) ==
  IF jobId \in DOMAIN activeJobs
  THEN [aborted |-> {activeJobs[jobId]}, result |-> TRUE]
  ELSE [aborted |-> {}, result |-> FALSE]

\* abortAllJobs()
abortAllJobs ==
  [aborted |-> {activeJobs[j] : j \in DOMAIN activeJobs}, result |-> DOMAIN activeJobs]

\* A variant of statsAfter that counts every failed call as an aborted job.
statsAfter_FailureCountsAsAbort(rejected, counted) ==
  IF rejected = "none"
  THEN [stats EXCEPT !.totalGenerated = @ + counted,
                     !.completedJobs = @ + 1]
  ELSE [stats EXCEPT !.abortedJobs = @ + 1]

\* GeneratorPool.stats after a generate call whose pool promise settled with
\* rejected ("none" when it was fulfilled): the update after the await, or
\* the catch block.
statsAfter(rejected, counted) ==
  IF rejected = "none"
  THEN [stats EXCEPT !.totalGenerated = @ + counted,
                     !.completedJobs = @ + 1]
  ELSE IF rejected = "AbortError"
       THEN [stats EXCEPT !.abortedJobs = @ + 1]
       ELSE stats

\* generate(), from the settling of its pool promise to its return or throw:
\* the stats update, the catch and the finally.
GenerateSettle(h) ==
  LET c == calls[h]
      ok == c.rejected = "none"
      \* result.data: the flattened chunks, the batch of the single task, or
      \* nothing when the worker ran in streaming mode (it returns chunks, no data)
      delivered == IF c.fanOut
                   THEN SumSeq([k \in 1..Len(c.chunks) |-> TaskData(c.chunks[k])])
                   ELSE IF c.streaming THEN 0
                   ELSE TaskData(c.count)
      counted == IF c.fanOut THEN delivered ELSE c.count
      outcome == IF ok THEN Settled("ok", NoJobId, delivered)
                 ELSE IF c.rejected = "AbortError" THEN JobAbortedError(c.jobId)
                 ELSE Settled("GenerationError", NoJobId, 0)
  IN /\ CallReady(h)
     /\ hs[h].pc = "await"
     /\ stats' = statsAfter(c.rejected, counted)
     /\ activeJobs' = IF c.jobId # NoJobId /\ c.jobId \in DOMAIN activeJobs
                      THEN Del(activeJobs, c.jobId) ELSE activeJobs
     /\ calls' = [calls EXCEPT ![h] = NoCall]
     /\ hs' = [hs EXCEPT ![h].pc = "resume",
                         ![h].pending = outcome,
                         ![h].nCompleted = @ + (IF ok THEN 1 ELSE 0),
                         ![h].nGenerated = @ + (IF ok THEN counted ELSE 0),
                         ![h].nAborted = @ + (IF ~ok /\ c.rejected = "AbortError" THEN 1 ELSE 0)]
     /\ poolQueue' = Disown(poolQueue, h)
     /\ poolRunning' = Disown(poolRunning, h)
     /\ UNCHANGED <<threads, issued, fan, StoreVars, SchemaVars, lifecycle>>
     /\ RegUnchanged

(***************************************************************************)
(* The worker pool (Piscina): FIFO queue, at most maxThreads tasks at a    *)
(* time, threads grown on demand.  The 60 s idle timeout that reclaims     *)
(* threads is outside the time span of a behaviour.                        *)
(***************************************************************************)
\* A running task finishes: with its records, or with an error of the generator.
TaskFinish(k, ok) ==
  /\ Quiescent
  /\ k \in 1..Len(poolRunning)
  /\ LET t == poolRunning[k]
     IN calls' = IF t.owner # NoOwner
                 THEN [calls EXCEPT ![t.owner].nDone = IF ok THEN @ + 1 ELSE @,
                                    ![t.owner].rejected = IF ~ok /\ @ = "none" THEN "Error" ELSE @]
                 ELSE calls
  /\ SetPool(poolQueue, RemoveAt(poolRunning, k), threads)
  /\ UNCHANGED <<hs, activeJobs, stats, issued, fan, StoreVars, SchemaVars, lifecycle>>
  /\ RegUnchanged

(***************************************************************************)
(* Handler exits.                                                          *)
(***************************************************************************)
\* A variant of Finish whose finally block does not unregister.
Finish_KeepsEntry(h, hrec) ==
  /\ hs' = [hs EXCEPT ![h] =
              [IdleHandler EXCEPT !.pc = "done", !.kind = hrec.kind, !.jobId = hrec.jobId,
                                  !.requestId = hrec.requestId, !.aborted = hrec.aborted,
                                  !.response = hrec.response,
                                  !.body = hrec.body, !.ended = hrec.ended,
                                  !.nCompleted = hrec.nCompleted,
                                  !.nAborted = hrec.nAborted, !.nGenerated = hrec.nGenerated]]
  /\ RegUnchanged

\* A variant of signalAborted that never sees the signal.
signalAborted_Never(hrec) == FALSE

\* abortController.signal.aborted, as the loop of a handler reads it
signalAborted(hrec) == hrec.aborted

\* The finally block of a handler: jobService.unregisterRequest(requestId).
\* The handler's locals die with its return; what stays is what it sent, the
\* request id its close callback holds, and its controller.
Finish(h, hrec) ==
  /\ hs' = [hs EXCEPT ![h] =
              [IdleHandler EXCEPT !.pc = "done", !.kind = hrec.kind, !.jobId = hrec.jobId,
                                  !.requestId = hrec.requestId, !.aborted = hrec.aborted,
                                  !.response = hrec.response,
                                  !.body = hrec.body, !.ended = hrec.ended,
                                  !.nCompleted = hrec.nCompleted,
                                  !.nAborted = hrec.nAborted, !.nGenerated = hrec.nGenerated]]
  /\ SetReg(unregisterRequest(reg, hs[h].requestId))

\* A throw out of the handler: the error handler builds the response.
Throw(h, error) == Finish(h, [hs[h] EXCEPT !.response = errorHandler(error)])

(***************************************************************************)
(* POST /generate                                                          *)
(***************************************************************************)
\* Request receipt up to the try block: the check of the body fields schema
\* and schemas (fields says which of them the body has), normalisation and
\* registration.  A body with both fields is processed as its schemas array.
GenerateRequest(h, jobId, fields, items, streaming) ==
  /\ Quiescent
  /\ FreeSlot(h)
  /\ PoolUnchanged
  /\ IF fields = "neither"
     THEN /\ hs' = [hs EXCEPT ![h] = [IdleHandler EXCEPT
                        !.pc = "done", !.kind = "generate", !.fields = fields,
                        !.response = errorHandler(Settled("ValidationError", NoJobId, 0))]]
          /\ UNCHANGED <<issued, fan, StoreVars, SchemaVars, lifecycle>>
          /\ RegUnchanged
     ELSE LET r == registerRequest(reg, jobId, h, Head(items))
          IN /\ SetReg(r.reg)
             /\ issued' = Append(issued, r.requestId)
             /\ UNCHANGED <<fan, StoreVars, SchemaVars, lifecycle>>
             /\ hs' = [hs EXCEPT ![h] =
                         [IdleHandler EXCEPT !.pc = "loop", !.kind = "generate",
                                             !.jobId = jobId, !.requestId = r.requestId,
                                             !.fields = fields,
                                             !.streaming = streaming,
                                             !.items = items, !.nItems = Len(items)]]

\* One pass of `for (... of schemasToProcess)` up to its await, or the response.
GenerateLoop(h, valid) ==
  /\ hs[h].pc = "loop"
  /\ hs[h].kind = "generate"
  /\ UNCHANGED <<issued, fan, StoreVars, SchemaVars, lifecycle>>
  /\ IF hs[h].items = <<>>
     THEN /\ Finish(h, [hs[h] EXCEPT !.response =
                          [status |-> 200, code |-> "", jobId |-> NoJobId,
                           total |-> hs[h].totalGenerated,
                           schemasProcessed |-> hs[h].resultsLen]])
          /\ PoolUnchanged
     ELSE IF ~valid
     THEN /\ Throw(h, Settled("ValidationError", NoJobId, 0))
          /\ PoolUnchanged
     ELSE IF signalAborted(hs[h])
     THEN /\ Throw(h, Settled("Error", NoJobId, 0))
          /\ PoolUnchanged
     ELSE IF shouldUseWorkers(Head(hs[h].items))
     THEN /\ generate(h, Head(hs[h].items), hs[h].streaming, hs[h].jobId)
          /\ hs' = [hs EXCEPT ![h].pc = "await"]
          /\ RegUnchanged
     ELSE /\ hs' = [hs EXCEPT ![h].pc = "inline"]
          /\ PoolUnchanged
          /\ RegUnchanged

\* generatorService.generateBatch settles: count records, or the generator threw.
\* It reads no cancellation handle and touches no counter.
generateBatch(h, ok) ==
  /\ Quiescent
  /\ hs[h].pc = "inline"
  /\ hs' = [hs EXCEPT ![h].pc = "resume",
                      ![h].pending = IF ok THEN Settled("ok", NoJobId, Head(hs[h].items))
                                     ELSE Settled("Error", NoJobId, 0)]
  /\ UNCHANGED <<issued, fan, StoreVars, SchemaVars, lifecycle>>
  /\ PoolUnchanged
  /\ RegUnchanged

\* After the await: results.push and the next pass, or the error propagates.
GenerateResume(h) ==
  /\ hs[h].pc = "resume"
  /\ hs[h].kind = "generate"
  /\ UNCHANGED <<issued, fan, StoreVars, SchemaVars, lifecycle>>
  /\ PoolUnchanged
  /\ IF hs[h].pending.name = "ok"
     THEN /\ hs' = [hs EXCEPT ![h].pc = "loop",
                              ![h].pending = NothingPending,
                              ![h].items = Tail(@),
                              ![h].resultsLen = @ + 1,
                              ![h].totalGenerated = @ + hs[h].pending.n]
          /\ RegUnchanged
     ELSE Throw(h, hs[h].pending)

(***************************************************************************)
(* Management routes and client disconnect.                                *)
(***************************************************************************)
\* GeneratorPool.connectRedis: the client it leaves in redisClient.  ok says
\* whether the connection could be made.
connectRedis(enabled, ok) == enabled /\ ok

\* A variant of setAbortSignal that lets a failed write escape to the caller.
setAbortSignal_Throws(jobId, writeOk) ==
  IF ~redisClient
  THEN [keys |-> redisKeys, threw |-> FALSE]
  ELSE IF writeOk
       THEN [keys |-> redisKeys \cup {jobId}, threw |-> FALSE]
       ELSE [keys |-> redisKeys, threw |-> TRUE]

\* GeneratorPool.setAbortSignal: the store after the call and whether the call
\* threw.  writeOk says whether the write reached the store.
setAbortSignal(jobId, writeOk) ==
  IF ~redisClient
  THEN [keys |-> redisKeys, threw |-> FALSE]
  ELSE IF writeOk
       THEN [keys |-> redisKeys \cup {jobId}, threw |-> FALSE]
       ELSE [keys |-> redisKeys, threw |-> FALSE]

\* GeneratorPool.checkAbortSignal.  readOk says whether the read succeeded.
checkAbortSignal(jobId, readOk) ==
  IF ~redisClient \/ jobId = NoJobId
  THEN FALSE
  ELSE IF readOk THEN jobId \in redisKeys ELSE FALSE

\* The reply of POST /stop-job/:jobId.
StopJobReply(jobId, writeOk) ==
  IF setAbortSignal(jobId, writeOk).threw
  THEN [status |-> errorHandler(Settled("Error", NoJobId, 0)).status,
        success |-> FALSE, aborted |-> FALSE, redisSignalSet |-> redisClient]
  ELSE [status |-> 200, success |-> TRUE,
        aborted |-> abortJob(jobId).result \/ abortByJobId(reg, jobId).result,
        redisSignalSet |-> redisClient]

\* POST /stop-job/:jobId
StopJob(jobId) ==
  /\ Quiescent
  /\ LET poolAborted == abortJob(jobId)
         serviceAborted == abortByJobId(reg, jobId)
     IN /\ AbortSignals(poolAborted.aborted)
        /\ SetReg(serviceAborted.reg)
        /\ hs' = SignalHandles(serviceAborted.aborted, hs)
  /\ \E writeOk \in BOOLEAN : redisKeys' = setAbortSignal(jobId, writeOk).keys
  /\ UNCHANGED <<activeJobs, stats, issued, fan, redisEnabled, redisClient, SchemaVars, lifecycle>>

\* POST /kill/:requestId
Kill(requestId) ==
  /\ Quiescent
  /\ LET killed == abortByRequestId(reg, requestId)
     IN /\ SetReg(killed.reg)
        /\ hs' = SignalHandles(killed.aborted, hs)
  /\ UNCHANGED <<issued, fan, StoreVars, SchemaVars, lifecycle>>
  /\ PoolUnchanged

\* POST /kill-all
KillAll ==
  /\ Quiescent
  /\ LET serviceKilled == abortAll(reg)
         poolKilled == abortAllJobs
     IN /\ SetReg(serviceKilled.reg)
        /\ hs' = SignalHandles(serviceKilled.aborted, hs)
        /\ AbortSignals(poolKilled.aborted)
  /\ UNCHANGED <<activeJobs, stats, issued, fan, StoreVars, SchemaVars, lifecycle>>

\* request.raw.on('close') while the response is not complete: the callback acts
\* only when the request message is not complete (request.raw.complete).  The
\* closed field records that the event was emitted; the code keeps no such flag.
Disconnect(h, complete) ==
  /\ Quiescent
  /\ hs[h].pc \notin {"idle", "done"}
  /\ ~hs[h].closed
  /\ IF complete
     THEN /\ hs' = [hs EXCEPT ![h].closed = TRUE]
          /\ RegUnchanged
     ELSE /\ hs' = [SignalHandles({h}, hs) EXCEPT ![h].closed = TRUE]
          /\ SetReg(unregisterRequest(reg, hs[h].requestId))
  /\ UNCHANGED <<issued, fan, StoreVars, SchemaVars, lifecycle>>
  /\ PoolUnchanged

(***************************************************************************)
(* POST /generate-stream and POST /generate-stream-multi                   *)
(***************************************************************************)
\* One NDJSON line written to reply.raw.
Rec(t, chunk, size, data, completed) ==
  [t |-> t, chunk |-> chunk, size |-> size, data |-> data, completed |-> completed,
   collection |-> 0]

\* The collection a multi-schema stream is at: the position of the schema in
\* schemasToProcess (the collection field of its records).
collection(hrec) == hrec.nItems - Len(hrec.items) + 1
InCollection(rec, hrec) == [rec EXCEPT !.collection = collection(hrec)]

\* A variant of thisChunkSize that never shortens the last chunk.
thisChunkSize_Full(hrec) == hrec.chunkSize

thisChunkSize(hrec) == Min(hrec.chunkSize, Head(hrec.items) - hrec.i)

\* A request rejected before registration (ValidationError thrown ahead of
\* jobService.registerRequest).
RejectRequest(h, kind) ==
  /\ hs' = [hs EXCEPT ![h] = [IdleHandler EXCEPT
                                !.pc = "done", !.kind = kind,
                                !.response = errorHandler(Settled("ValidationError", NoJobId, 0))]]
  /\ UNCHANGED <<issued, fan, StoreVars, SchemaVars, lifecycle>>
  /\ RegUnchanged

StreamRequest(h, jobId, count, chunkSize, valid) ==
  /\ Quiescent
  /\ FreeSlot(h)
  /\ PoolUnchanged
  /\ IF ~valid THEN RejectRequest(h, "stream")
     ELSE LET r == registerRequest(reg, jobId, h, count)
          IN /\ SetReg(r.reg)
             /\ issued' = Append(issued, r.requestId)
             /\ UNCHANGED <<fan, StoreVars, SchemaVars, lifecycle>>
             /\ hs' = [hs EXCEPT ![h] =
                         [IdleHandler EXCEPT !.pc = "loop", !.kind = "stream",
                                             !.jobId = jobId, !.requestId = r.requestId,
                                             !.items = <<count>>, !.nItems = 1,
                                             !.chunkSize = safeChunkSize(chunkSize)]]

\* `for (let i = 0; i < count; i += safeChunkSize)` up to the await, and the
\* completion that follows the loop.
StreamLoop(h) ==
  LET hr == hs[h]
      done == Rec("done", hr.chunkIndex, 0, 0, hr.totalSent)
  IN /\ hr.pc = "loop"
     /\ hr.kind = "stream"
     /\ UNCHANGED <<issued, fan, StoreVars, SchemaVars, lifecycle>>
     /\ IF hr.i < Head(hr.items) /\ ~signalAborted(hr)
        THEN /\ generate(h, thisChunkSize(hr), FALSE, hr.jobId)
             /\ hs' = [hs EXCEPT ![h].pc = "await"]
             /\ RegUnchanged
        ELSE /\ PoolUnchanged
             /\ Finish(h, [hr EXCEPT
                   !.body = IF hr.i < Head(hr.items)
                            THEN @ \o <<Rec("aborted", 0, 0, 0, hr.totalSent), done>>
                            ELSE Append(@, done),
                   !.ended = TRUE])

\* After the await: the chunk line, or the catch block.
StreamResume(h) ==
  LET hr == hs[h]
      n == thisChunkSize(hr)
  IN /\ hr.pc = "resume"
     /\ hr.kind = "stream"
     /\ UNCHANGED <<issued, fan, StoreVars, SchemaVars, lifecycle>>
     /\ PoolUnchanged
     /\ IF hr.pending.name = "ok"
        THEN /\ hs' = [hs EXCEPT ![h] = [hr EXCEPT
                         !.pc = "loop",
                         !.pending = NothingPending,
                         !.body = Append(@, Rec("chunk", hr.chunkIndex, n, hr.pending.n, hr.i + n)),
                         !.chunkIndex = @ + 1,
                         !.totalSent = @ + n,
                         !.i = @ + hr.chunkSize]]
             /\ RegUnchanged
        ELSE Finish(h, [hr EXCEPT
               !.body = Append(@, Rec("generation_failed", 0, 0, 0, hr.totalSent)),
               !.ended = TRUE])

MultiRequest(h, jobId, items, chunkSize, valid) ==
  /\ Quiescent
  /\ FreeSlot(h)
  /\ PoolUnchanged
  /\ IF ~valid THEN RejectRequest(h, "multi")
     ELSE LET r == registerRequest(reg, jobId, h, SumSeq(items))
          IN /\ SetReg(r.reg)
             /\ issued' = Append(issued, r.requestId)
             /\ UNCHANGED <<fan, StoreVars, SchemaVars, lifecycle>>
             /\ hs' = [hs EXCEPT ![h] =
                         [IdleHandler EXCEPT !.pc = "loop", !.kind = "multi",
                                             !.jobId = jobId, !.requestId = r.requestId,
                                             !.items = items, !.nItems = Len(items),
                                             !.chunkSize = safeChunkSizeMulti(chunkSize)]]

\* The two nested loops of the multi-schema stream, one loop head per step.
MultiLoop(h) ==
  LET hr == hs[h]
  IN /\ hr.pc = "loop"
     /\ hr.kind = "multi"
     /\ UNCHANGED <<issued, fan, StoreVars, SchemaVars, lifecycle>>
     /\ IF ~hr.inner
        THEN \* head of `for (... of schemasToProcess)`
             /\ PoolUnchanged
             /\ IF hr.items = <<>> \/ signalAborted(hr)
                THEN Finish(h, [hr EXCEPT
                       !.body = Append(@, Rec("done", hr.chunkIndex, 0, 0, hr.totalSent)),
                       !.ended = TRUE])
                ELSE /\ hs' = [hs EXCEPT ![h].inner = TRUE, ![h].i = 0,
                                         ![h].collectionSent = 0]
                     /\ RegUnchanged
        ELSE \* head of `for (let i = 0; i < count; i += safeChunkSize)`
             /\ RegUnchanged
             /\ IF hr.i < Head(hr.items) /\ ~signalAborted(hr)
                THEN /\ generate(h, thisChunkSize(hr), FALSE, hr.jobId)
                     /\ hs' = [hs EXCEPT ![h].pc = "await"]
                ELSE /\ PoolUnchanged
                     /\ hs' = [hs EXCEPT ![h] = [hr EXCEPT
                                 !.inner = FALSE,
                                 !.totalSent = @ + hr.collectionSent,
                                 !.body = Append(@, InCollection(
                                            Rec("collectionComplete", 0, hr.collectionSent, 0, 0),
                                            hr)),
                                 !.items = Tail(@)]]

MultiResume(h) ==
  LET hr == hs[h]
      n == thisChunkSize(hr)
  IN /\ hr.pc = "resume"
     /\ hr.kind = "multi"
     /\ UNCHANGED <<issued, fan, StoreVars, SchemaVars, lifecycle>>
     /\ PoolUnchanged
     /\ IF hr.pending.name = "ok"
        THEN /\ hs' = [hs EXCEPT ![h] = [hr EXCEPT
                         !.pc = "loop",
                         !.pending = NothingPending,
                         !.body = Append(@, InCollection(
                                    Rec("chunk", hr.chunkIndex, n, hr.pending.n, hr.i + n), hr)),
                         !.chunkIndex = @ + 1,
                         !.collectionSent = @ + n,
                         !.i = @ + hr.chunkSize]]
             /\ RegUnchanged
        ELSE Finish(h, [hr EXCEPT
               !.body = Append(@, Rec("generation_failed", 0, 0, 0, hr.totalSent)),
               !.ended = TRUE])

(***************************************************************************)
(* The process.                                                            *)
(***************************************************************************)
HeaderJobIds == JobIds \cup {NoJobId}

Next ==
  \/ \E h \in Handlers, jobId \in HeaderJobIds, body \in GenerateBodies :
       GenerateRequest(h, jobId, body.fields, body.items, body.streaming)
  \/ \E h \in Handlers, valid \in BOOLEAN : GenerateLoop(h, valid)
  \/ \E h \in Handlers, ok \in BOOLEAN : generateBatch(h, ok)
  \/ \E h \in Handlers : GenerateResume(h)
  \/ \E h \in Handlers, jobId \in HeaderJobIds, count \in StreamCounts,
        chunkSize \in ChunkSizes, valid \in BOOLEAN :
       StreamRequest(h, jobId, count, chunkSize, valid)
  \/ \E h \in Handlers : StreamLoop(h)
  \/ \E h \in Handlers : StreamResume(h)
  \/ \E h \in Handlers, jobId \in HeaderJobIds, chunkSize \in ChunkSizes, valid \in BOOLEAN :
       \E items \in MultiBodies :
         MultiRequest(h, jobId, items, chunkSize, valid)
  \/ \E h \in Handlers : MultiLoop(h)
  \/ \E h \in Handlers : MultiResume(h)
  \/ \E h \in Handlers : GenerateSettle(h)
  \/ \E k \in 1..maxThreads, ok \in BOOLEAN : TaskFinish(k, ok)
  \/ \E jobId \in JobIds : StopJob(jobId)
  \/ \E requestId \in RequestIds : Kill(requestId)
  \/ KillAll
  \/ \E h \in Handlers, complete \in BOOLEAN : Disconnect(h, complete)

Spec == Init /\ [][Next]_vars

(***************************************************************************)
(* The fan-out of GeneratorPool.generate on its own: the split of count    *)
(* into chunks for a pool of a given number of threads, the tasks settling *)
(* in any order, and the flattening of the results of Promise.all.         *)
(***************************************************************************)
FanCounts == fanOutThreshold..MaxFanCount

\* The records a worker task returns for chunk k of n records, in the order
\* the task produced them.
WorkerData(k, n) == [j \in 1..n |-> <<k, j>>]

\* A variant of Fulfil that stores a result in the first free slot.
Fulfil_ArrivalOrder(results, k, data) ==
  LET free == CHOOSE x \in 1..Len(results) :
                /\ results[x] = <<>>
                /\ \A y \in 1..(x - 1) : results[y] # <<>>
  IN [results EXCEPT ![free] = data]

\* Promise.all: the value of the k-th promise goes to slot k of the array.
Fulfil(results, k, data) == [results EXCEPT ![k] = data]

\* results.flatMap(r => r.data || [])
RECURSIVE FlatMap(_)
FlatMap(results) ==
  IF results = <<>> THEN <<>> ELSE Head(results) \o FlatMap(Tail(results))

FanUnchanged ==
  UNCHANGED <<activeRequests, requestIdCounter, hs, calls, activeJobs,
              poolQueue, poolRunning, threads, stats, issued,
              StoreVars, SchemaVars, lifecycle>>

InitFanOut ==
  /\ activeRequests = EmptyMap
  /\ requestIdCounter = 0
  /\ hs = [h \in Handlers |-> IdleHandler]
  /\ calls = [h \in Handlers |-> NoCall]
  /\ activeJobs = EmptyMap
  /\ poolQueue = <<>>
  /\ poolRunning = <<>>
  /\ threads \in 1..MaxFanThreads
  /\ stats = [totalGenerated |-> 0, completedJobs |-> 0, abortedJobs |-> 0]
  /\ issued = <<>>
  /\ fan = IdleFan
  /\ NoStore
  /\ NoSchemaCalls
  /\ lifecycle = Serving

\* The chunks are created and one pool task per chunk is submitted.
FanOutSubmit(count) ==
  /\ fan.pc = "idle"
  /\ LET chunks == FanOutChunks(count, FALSE, threads)
     IN fan' = [IdleFan EXCEPT !.pc = "await", !.count = count, !.chunks = chunks,
                               !.results = [k \in 1..Len(chunks) |-> <<>>]]
  /\ FanUnchanged

\* The task of chunk k settles with its records.
FanOutTaskDone(k) ==
  /\ fan.pc = "await"
  /\ Len(fan.chunks) <= MaxGatherChunks
  /\ k \in 1..Len(fan.chunks)
  /\ k \notin {fan.order[x] : x \in 1..Len(fan.order)}
  /\ fan' = [fan EXCEPT !.results = Fulfil(@, k, WorkerData(k, fan.chunks[k])),
                        !.order = Append(@, k)]
  /\ FanUnchanged

\* Promise.all resolves once every task has settled; the results are flattened.
FanOutGather ==
  /\ fan.pc = "await"
  /\ Len(fan.order) = Len(fan.chunks)
  /\ fan' = [fan EXCEPT !.pc = "done", !.allData = FlatMap(fan.results)]
  /\ FanUnchanged

NextFanOut ==
  \/ \E count \in FanCounts : FanOutSubmit(count)
  \/ \E k \in 1..MaxGatherChunks : FanOutTaskDone(k)
  \/ FanOutGather

SpecFanOut == InitFanOut /\ [][NextFanOut]_vars

(***************************************************************************)
(* The fan-out for every number of threads, a pool without threads         *)
(* included.                                                               *)
(***************************************************************************)
InitChunks ==
  /\ activeRequests = EmptyMap
  /\ requestIdCounter = 0
  /\ hs = [h \in Handlers |-> IdleHandler]
  /\ calls = [h \in Handlers |-> NoCall]
  /\ activeJobs = EmptyMap
  /\ poolQueue = <<>>
  /\ poolRunning = <<>>
  /\ threads \in 0..MaxFanThreads
  /\ stats = [totalGenerated |-> 0, completedJobs |-> 0, abortedJobs |-> 0]
  /\ issued = <<>>
  /\ fan = IdleFan
  /\ NoStore
  /\ NoSchemaCalls
  /\ lifecycle = Serving

SpecChunks == InitChunks /\ [][NextFanOut]_vars

(***************************************************************************)
(* One /generate request, alone in the process with the management routes. *)
(***************************************************************************)
SoloGenerateBodies ==
  GenerateBodies \cup
  {[fields |-> "schema", items |-> <<300>>, streaming |-> TRUE],
   [fields |-> "schemas", items |-> <<300, 2>>, streaming |-> TRUE],
   [fields |-> "both", items |-> <<2>>, streaming |-> FALSE],
   [fields |-> "neither", items |-> <<>>, streaming |-> FALSE]}

NextGenerate ==
  \/ \E jobId \in HeaderJobIds, body \in SoloGenerateBodies :
       GenerateRequest(1, jobId, body.fields, body.items, body.streaming)
  \/ \E valid \in BOOLEAN : GenerateLoop(1, valid)
  \/ \E ok \in BOOLEAN : generateBatch(1, ok)
  \/ GenerateResume(1)
  \/ GenerateSettle(1)
  \/ \E k \in 1..maxThreads, ok \in BOOLEAN : TaskFinish(k, ok)
  \/ \E jobId \in JobIds : StopJob(jobId)
  \/ \E requestId \in RequestIds : Kill(requestId)
  \/ KillAll
  \/ \E complete \in BOOLEAN : Disconnect(1, complete)

SpecGenerate == Init /\ [][NextGenerate]_vars

(***************************************************************************)
(* Schemas and records.  A schema node is a function from the keywords it  *)
(* has to their values: "$id" (a string), "type" (a type name or an array  *)
(* of type names), "properties" (name -> node), "items" (a node or a tuple *)
(* of nodes), "additionalProperties" (a boolean or a node), "anyOf" (a     *)
(* sequence of nodes).  A record is tagged with its JavaScript kind.       *)
(***************************************************************************)
Has(obj, key) == key \in DOMAIN obj
Elems(seq) == {seq[x] : x \in 1..Len(seq)}

TypeName(name) == [array |-> FALSE, names |-> <<name>>]
TypeArray(names) == [array |-> TRUE, names |-> names]
OneItem(node) == [tuple |-> FALSE, nodes |-> <<node>>]
TupleItems(nodes) == [tuple |-> TRUE, nodes |-> nodes]
Flag(value) == [isSchema |-> FALSE, value |-> value]
SubSchema(node) == [isSchema |-> TRUE, node |-> node]

Leaf == [t |-> "string"]
Obj(fields) == [t |-> "object", fields |-> fields]
Arr(elems) == [t |-> "array", elems |-> elems]

\* removeIdRecursive of schemaService and of the worker (the same code).  An
\* items tuple is an array: it has no properties or items of its own, so its
\* elements are not visited.
RECURSIVE removeIdRecursive(_)
removeIdRecursive(obj) ==
  LET a == Del(obj, "$id")
      b == IF Has(a, "properties")
           THEN Put(a, "properties",
                    [key \in DOMAIN a.properties |-> removeIdRecursive(a.properties[key])])
           ELSE a
      c == IF Has(b, "items") /\ ~b.items.tuple
           THEN Put(b, "items", OneItem(removeIdRecursive(b.items.nodes[1])))
           ELSE b
  IN IF Has(c, "additionalProperties") /\ c.additionalProperties.isSchema
     THEN Put(c, "additionalProperties",
              SubSchema(removeIdRecursive(c.additionalProperties.node)))
     ELSE c

\* types.includes('object') for types = the type array, or [type]
isObjectType(obj) == Has(obj, "type") /\ "object" \in Elems(obj.type.names)

\* enforceAdditionalProperties of the worker
RECURSIVE enforceAdditionalProperties(_, _)
enforceAdditionalProperties(obj, randomMode) ==
  LET a == IF isObjectType(obj) /\ Has(obj, "properties")
           THEN IF randomMode
                THEN IF \/ ~Has(obj, "additionalProperties")
                        \/ obj.additionalProperties = Flag(FALSE)
                     THEN Put(obj, "additionalProperties", Flag(TRUE))
                     ELSE obj
                ELSE Put(obj, "additionalProperties", Flag(FALSE))
           ELSE obj
      b == IF Has(a, "properties")
           THEN Put(a, "properties",
                    [key \in DOMAIN a.properties |->
                       enforceAdditionalProperties(a.properties[key], randomMode)])
           ELSE a
      c == IF Has(b, "items") /\ ~b.items.tuple
           THEN Put(b, "items",
                    OneItem(enforceAdditionalProperties(b.items.nodes[1], randomMode)))
           ELSE b
  IN IF Has(c, "additionalProperties") /\ c.additionalProperties.isSchema
     THEN Put(c, "additionalProperties",
              SubSchema(enforceAdditionalProperties(c.additionalProperties.node, randomMode)))
     ELSE c

\* What schemaService.prepareSchema computes on a cache miss.
servicePrepared(schema) == removeIdRecursive(schema)

\* What the worker's prepareSchema computes on a cache miss.
workerPrepared(schema, randomMode) ==
  enforceAdditionalProperties(removeIdRecursive(schema), randomMode)

\* A cache key of the worker that leaves the mode out.
workerCacheKey_NoMode(schema, randomMode) == <<"any", schema>>

\* The cache key of the worker: the mode, then the schema text.
workerCacheKey(schema, randomMode) ==
  <<IF randomMode THEN "random" ELSE "strict", schema>>

\* cache.get(key) then cache.set(key, fresh) on a miss: the value returned and
\* the cache afterwards.  A full cache drops one of its entries for the new one.
Cached(cache, key, fresh) ==
  IF key \in DOMAIN cache
  THEN {[result |-> cache[key], cache |-> cache, hit |-> TRUE]}
  ELSE IF Cardinality(DOMAIN cache) < MaxCacheEntries
       THEN {[result |-> fresh, cache |-> Put(cache, key, fresh), hit |-> FALSE]}
       ELSE {[result |-> fresh, cache |-> Put(Del(cache, victim), key, fresh), hit |-> FALSE] :
               victim \in DOMAIN cache}

\* cleanExtraProperties of generatorService and of the worker (the same code)
RECURSIVE cleanExtraProperties(_, _)
cleanExtraProperties(data, schema) ==
  IF data.t \notin {"object", "array"}
  THEN data
  ELSE IF data.t = "array"
       THEN IF Has(schema, "items")
            THEN IF schema.items.tuple
                 THEN data   \* schema.items is an array: no type, no properties
                 ELSE Arr([x \in 1..Len(data.elems) |->
                             cleanExtraProperties(data.elems[x], schema.items.nodes[1])])
            ELSE data
       ELSE IF ~isObjectType(schema) \/ ~Has(schema, "properties")
            THEN data
            ELSE Obj([key \in DOMAIN schema.properties \cap DOMAIN data.fields |->
                        cleanExtraProperties(data.fields[key], schema.properties[key])])

validTypes == {"object", "array", "string", "number", "integer", "boolean", "null"}

\* schemaService.validateSchema; compiles says whether ajv.compile accepts the
\* schema.  A type array is not a member of validTypes.
validateSchema(schema, compiles) ==
  IF Has(schema, "type") /\ (schema.type.array \/ schema.type.names[1] \notin validTypes)
  THEN [valid |-> FALSE, errors |-> "Invalid schema type"]
  ELSE IF compiles
       THEN [valid |-> TRUE, errors |-> "none"]
       ELSE [valid |-> FALSE, errors |-> "compile"]

\* The reply of POST /validate.
validateReply(result) ==
  IF result.valid
  THEN [status |-> 200, success |-> TRUE, valid |-> TRUE, code |-> "none",
        errors |-> result.errors]
  ELSE [status |-> 200, success |-> FALSE, valid |-> FALSE, code |-> "none",
        errors |-> result.errors]

(***************************************************************************)
(* The schema functions on their own: schemas are validated, prepared by   *)
(* the service and by the worker, and records are generated inline and in  *)
(* the worker from what the faker primitive returns.                       *)
(***************************************************************************)
String == [type |-> TypeName("string")]
StringWithId == Put(String, "$id", "u")
Person == [type |-> TypeName("object"), properties |-> [a |-> String]]
PersonWithId == Put(Person, "$id", "u")

Schemas ==
  {Person,
   [type |-> TypeName("object"), properties |-> [a |-> StringWithId],
    additionalProperties |-> Flag(FALSE)],
   Put([type |-> TypeName("object"),
        properties |-> [o |-> [type |-> TypeArray(<<"object", "null">>),
                               properties |-> [a |-> String],
                               additionalProperties |-> Flag(TRUE)]]], "$id", "u"),
   [type |-> TypeName("array"), items |-> OneItem(PersonWithId)],
   [type |-> TypeName("array"), items |-> TupleItems(<<PersonWithId>>)],
   [type |-> TypeName("object"), anyOf |-> <<StringWithId>>],
   [properties |-> [a |-> String]],
   [type |-> TypeName("object"), properties |-> [a |-> String],
    additionalProperties |-> SubSchema(PersonWithId)]}

ValidateSchemas ==
  {Person, [type |-> TypeName("banana")],
   [type |-> TypeArray(<<"object", "null">>), properties |-> [a |-> String]]}

\* What the faker primitive may return for a schema: records with and
\* without keys that the schema does not declare.
FakerRecords ==
  {Obj([a |-> Leaf]),
   Obj([a |-> Leaf, x |-> Leaf]),
   Obj([o |-> Obj([a |-> Leaf, x |-> Leaf])]),
   Arr(<<Obj([a |-> Leaf, x |-> Leaf])>>)}

SchemaUnchanged ==
  UNCHANGED <<activeRequests, requestIdCounter, hs, calls, activeJobs,
              poolQueue, poolRunning, threads, stats, issued, fan, StoreVars,
              lifecycle>>

\* POST /validate
Validate(schema, compiles) ==
  /\ schemaCall' = [fn |-> "validate", schema |-> schema,
                    response |-> validateReply(validateSchema(schema, compiles))]
  /\ UNCHANGED <<schemaCache, workerSchemaCache>>
  /\ SchemaUnchanged

\* schemaService.prepareSchema(schema), also on a schema it returned before
ServicePrepare(schema) ==
  /\ \E c \in Cached(schemaCache, schema, servicePrepared(schema)) :
       /\ schemaCache' = c.cache
       /\ schemaCall' = [fn |-> "schemaService.prepareSchema", schema |-> schema,
                         randomMode |-> FALSE, hit |-> c.hit, prepared |-> c.result]
  /\ UNCHANGED workerSchemaCache
  /\ SchemaUnchanged

\* prepareSchema(schema, randomMode) of the worker
WorkerPrepare(schema, randomMode) ==
  /\ \E c \in Cached(workerSchemaCache, workerCacheKey(schema, randomMode),
                     workerPrepared(schema, randomMode)) :
       /\ workerSchemaCache' = c.cache
       /\ schemaCall' = [fn |-> "worker.prepareSchema", schema |-> schema,
                         randomMode |-> randomMode, hit |-> c.hit, prepared |-> c.result]
  /\ UNCHANGED schemaCache
  /\ SchemaUnchanged

\* One record of generatorService.generateBatch (the inline path): the schema
\* is prepared by the service and handed to generateOne.  generated is what
\* jsf.resolve returns (in fuzz mode: after applyRandomMutations).
InlineGenerate(schema, randomMode, generated) ==
  /\ \E c \in Cached(schemaCache, schema, servicePrepared(schema)) :
       /\ schemaCache' = c.cache
       /\ schemaCall' = [fn |-> "generatorService.generateBatch", schema |-> schema,
                         randomMode |-> randomMode, hit |-> c.hit, prepared |-> c.result,
                         record |-> IF randomMode THEN generated
                                    ELSE cleanExtraProperties(generated, c.result)]
  /\ UNCHANGED workerSchemaCache
  /\ SchemaUnchanged

\* One record of the worker (the pool path): the route hands the schema that
\* the service prepared to the pool, and the worker prepares it again.
WorkerGenerate(schema, randomMode, generated) ==
  /\ \E s \in Cached(schemaCache, schema, servicePrepared(schema)) :
       \E c \in Cached(workerSchemaCache, workerCacheKey(s.result, randomMode),
                       workerPrepared(s.result, randomMode)) :
         /\ schemaCache' = s.cache
         /\ workerSchemaCache' = c.cache
         /\ schemaCall' = [fn |-> "worker.generate", schema |-> schema,
                           randomMode |-> randomMode, hit |-> c.hit, prepared |-> c.result,
                           record |-> IF randomMode THEN generated
                                      ELSE cleanExtraProperties(generated, c.result)]
  /\ SchemaUnchanged

\* The schemas a caller may pass: the inputs and what preparation returned.
PreparedBefore ==
  {schemaCache[key] : key \in DOMAIN schemaCache}
    \cup {workerSchemaCache[key] : key \in DOMAIN workerSchemaCache}

NextSchema ==
  \/ \E schema \in ValidateSchemas, compiles \in BOOLEAN : Validate(schema, compiles)
  \/ \E schema \in Schemas \cup PreparedBefore : ServicePrepare(schema)
  \/ \E schema \in Schemas \cup PreparedBefore, randomMode \in BOOLEAN :
       WorkerPrepare(schema, randomMode)
  \/ \E schema \in Schemas, randomMode \in BOOLEAN, generated \in FakerRecords :
       InlineGenerate(schema, randomMode, generated)
  \/ \E schema \in Schemas, randomMode \in BOOLEAN, generated \in FakerRecords :
       WorkerGenerate(schema, randomMode, generated)

SpecSchema == Init /\ [][NextSchema]_vars

(***************************************************************************)
(* The abort signal store: a process started with the store enabled or     *)
(* disabled, connected or not, serving one /generate request whose client  *)
(* stays connected, and stop-job.                                          *)
(***************************************************************************)
InitStore ==
  /\ activeRequests = EmptyMap
  /\ requestIdCounter = 0
  /\ hs = [h \in Handlers |-> IdleHandler]
  /\ calls = [h \in Handlers |-> NoCall]
  /\ activeJobs = EmptyMap
  /\ poolQueue = <<>>
  /\ poolRunning = <<>>
  /\ threads = minThreads
  /\ stats = [totalGenerated |-> 0, completedJobs |-> 0, abortedJobs |-> 0]
  /\ issued = <<>>
  /\ fan = IdleFan
  /\ redisEnabled \in BOOLEAN
  /\ \E ok \in BOOLEAN : redisClient = connectRedis(redisEnabled, ok)
  /\ redisKeys = {}
  /\ NoSchemaCalls
  /\ lifecycle = Serving

NextStore ==
  \/ \E jobId \in HeaderJobIds, body \in GenerateBodies :
       GenerateRequest(1, jobId, body.fields, body.items, body.streaming)
  \/ \E valid \in BOOLEAN : GenerateLoop(1, valid)
  \/ \E ok \in BOOLEAN : generateBatch(1, ok)
  \/ GenerateResume(1)
  \/ GenerateSettle(1)
  \/ \E k \in 1..maxThreads, ok \in BOOLEAN : TaskFinish(k, ok)
  \/ \E jobId \in JobIds : StopJob(jobId)

SpecStore == InitStore /\ [][NextStore]_vars

(***************************************************************************)
(* One /generate-stream or /generate-stream-multi request with several     *)
(* chunks, alone in the process with the management routes.                *)
(***************************************************************************)
LongStreamCounts == {1, 501, 1001}
LongChunkSizes == {50, 1000, 6000}
LongMultiBodies == {<<51, 1>>, <<1, 51>>, <<1001>>}
LongMultiChunkSizes == {10, 50, 1000, 2000}

NextStream ==
  \/ \E jobId \in HeaderJobIds, count \in LongStreamCounts,
        chunkSize \in LongChunkSizes, valid \in BOOLEAN :
       StreamRequest(1, jobId, count, chunkSize, valid)
  \/ StreamLoop(1)
  \/ StreamResume(1)
  \/ \E jobId \in HeaderJobIds, items \in LongMultiBodies,
        chunkSize \in LongMultiChunkSizes, valid \in BOOLEAN :
       MultiRequest(1, jobId, items, chunkSize, valid)
  \/ MultiLoop(1)
  \/ MultiResume(1)
  \/ GenerateSettle(1)
  \/ \E k \in 1..maxThreads, ok \in BOOLEAN : TaskFinish(k, ok)
  \/ \E jobId \in JobIds : StopJob(jobId)
  \/ \E requestId \in RequestIds : Kill(requestId)
  \/ KillAll
  \/ \E complete \in BOOLEAN : Disconnect(1, complete)

SpecStream == Init /\ [][NextStream]_vars

(***************************************************************************)
(* Graceful shutdown: the onClose hook runs GeneratorPool.shutdown while a *)
(* request may be in flight.  The steps of handlers are followed until the *)
(* pool is destroyed; the process exits when shutdown has returned or      *)
(* thrown.                                                                 *)
(***************************************************************************)
\* shutdown() up to `await this.pool.destroy()`: abortAllJobs.
ShutdownBegin ==
  /\ Quiescent
  /\ lifecycle.pc = "serving"
  /\ AbortSignals(abortAllJobs.aborted)
  /\ lifecycle' = [lifecycle EXCEPT !.pc = "destroy"]
  /\ UNCHANGED <<hs, activeJobs, stats, issued, fan, StoreVars, SchemaVars>>
  /\ RegUnchanged

\* pool.destroy() settles.  Fulfilled: the threads are terminated and every
\* task still in the pool is rejected; shutdown goes on to the store.
\* Rejected: the error leaves shutdown.
PoolDestroy(ok) ==
  /\ Quiescent
  /\ lifecycle.pc = "destroy"
  /\ IF ok
     THEN /\ calls' = [h \in Handlers |->
                         IF Outstanding(h) /\ calls[h].rejected = "none"
                         THEN [calls[h] EXCEPT !.rejected = "Error"]
                         ELSE calls[h]]
          /\ poolQueue' = <<>>
          /\ poolRunning' = <<>>
          /\ threads' = 0
          /\ lifecycle' = [lifecycle EXCEPT !.pc = IF redisClient THEN "quit" ELSE "closed",
                                            !.poolDestroyed = TRUE]
     ELSE /\ lifecycle' = [lifecycle EXCEPT !.pc = "failed"]
          /\ UNCHANGED <<calls, poolQueue, poolRunning, threads>>
  /\ UNCHANGED <<hs, activeJobs, stats, issued, fan, StoreVars, SchemaVars>>
  /\ RegUnchanged

\* redisClient.quit() settles; a failure is logged.
RedisQuit(ok) ==
  /\ Quiescent
  /\ lifecycle.pc = "quit"
  /\ lifecycle' = [lifecycle EXCEPT !.pc = "closed", !.quitCalled = TRUE]
  /\ UNCHANGED <<hs, issued, fan, StoreVars, SchemaVars>>
  /\ PoolUnchanged
  /\ RegUnchanged

\* The pool still takes and runs tasks.
PoolAlive == lifecycle.pc \in {"serving", "destroy"}

NextShutdown ==
  \/ /\ lifecycle.pc = "serving"
     /\ \E jobId \in HeaderJobIds, body \in GenerateBodies :
          GenerateRequest(1, jobId, body.fields, body.items, body.streaming)
  \/ PoolAlive /\ \E valid \in BOOLEAN : GenerateLoop(1, valid)
  \/ PoolAlive /\ \E ok \in BOOLEAN : generateBatch(1, ok)
  \/ PoolAlive /\ GenerateResume(1)
  \/ PoolAlive /\ GenerateSettle(1)
  \/ PoolAlive /\ \E k \in 1..maxThreads, ok \in BOOLEAN : TaskFinish(k, ok)
  \/ ShutdownBegin
  \/ \E ok \in BOOLEAN : PoolDestroy(ok)
  \/ \E ok \in BOOLEAN : RedisQuit(ok)

SpecShutdown == InitStore /\ [][NextShutdown]_vars

(***************************************************************************)
(* Two requests that carry the same external job id and have more than one *)
(* generation step each, with stop-job and client disconnects.             *)
(***************************************************************************)
PairGenerateBodies ==
  {[fields |-> "schemas", items |-> <<300, 2>>, streaming |-> TRUE]}

PairStreamCounts == {501}

NextPair ==
  \/ \E h \in Handlers, jobId \in JobIds, body \in PairGenerateBodies :
       GenerateRequest(h, jobId, body.fields, body.items, body.streaming)
  \/ \E h \in Handlers : GenerateLoop(h, TRUE)
  \/ \E h \in Handlers, ok \in BOOLEAN : generateBatch(h, ok)
  \/ \E h \in Handlers : GenerateResume(h)
  \/ \E h \in Handlers, jobId \in JobIds, count \in PairStreamCounts :
       StreamRequest(h, jobId, count, minStreamChunk, TRUE)
  \/ \E h \in Handlers : StreamLoop(h)
  \/ \E h \in Handlers : StreamResume(h)
  \/ \E h \in Handlers : GenerateSettle(h)
  \/ \E k \in 1..maxThreads : TaskFinish(k, TRUE)
  \/ \E jobId \in JobIds : StopJob(jobId)
  \/ \E h \in Handlers : Disconnect(h, FALSE)

SpecPair == Init /\ [][NextPair]_vars

(***************************************************************************)
(* One request of any kind, alone in the process with the management       *)
(* routes.                                                                 *)
(***************************************************************************)
NextSolo == NextGenerate \/ NextStream

SpecSolo == Init /\ [][NextSolo]_vars

(***************************************************************************)
(* Observations used by the properties.                                    *)
(***************************************************************************)
Live(h) == hs[h].pc \notin {"idle", "done"}
Finished(h) == hs[h].pc = "done"
ReqKeys == {k \in DOMAIN activeRequests : IsReqKey(k)}
JobKeys == {k \in DOMAIN activeRequests : IsJobKey(k)}
LastIssued(s) == s[Len(s)]

RECURSIVE DataChunks(_)
DataChunks(body) ==
  IF body = <<>> THEN 0
  ELSE (IF Head(body).t = "chunk" THEN 1 ELSE 0) + DataChunks(Tail(body))

RECURSIVE RecordsSent(_)
RecordsSent(body) ==
  IF body = <<>> THEN 0
  ELSE (IF Head(body).t = "chunk" THEN Head(body).data ELSE 0) + RecordsSent(Tail(body))

HasRecord(body, t) == \E k \in 1..Len(body) : body[k].t = t

\* A handler that ended with a success: the 200 response of /generate, or a
\* stream body that ends with the done record and carries no error record.
Succeeded(h) ==
  /\ Finished(h)
  /\ IF hs[h].kind = "generate" THEN hs[h].response.status = 200
     ELSE /\ hs[h].response.status = 0
          /\ HasRecord(hs[h].body, "done")
          /\ ~HasRecord(hs[h].body, "aborted")
Delivered(h) ==
  IF hs[h].kind = "generate" THEN hs[h].response.total ELSE RecordsSent(hs[h].body)

(***************************************************************************)
(* C1: whenever the cancellation of a job has been requested (its registry *)
(* handle is signaled by stop-job, kill, kill-all or disconnect) while the *)
(* job awaits the pool, none of its pool tasks is still queued or running. *)
(***************************************************************************)
C1_CancelReachesPoolTasks ==
  \A h \in Handlers : (hs[h].pc = "await" /\ hs[h].aborted) => ~Outstanding(h)

(***************************************************************************)
(* C2: a /generate handler whose cancellation handle was signaled before   *)
(* its response ends with status 499, code JOB_ABORTED and the job id.     *)
(***************************************************************************)
C2_GenerateCancelIs499 ==
  \A h \in Handlers :
    (Finished(h) /\ hs[h].kind = "generate" /\ hs[h].aborted)
      => /\ hs[h].response.status = 499
         /\ hs[h].response.code = "JOB_ABORTED"
         /\ hs[h].response.jobId =
              (IF hs[h].jobId # NoJobId THEN hs[h].jobId ELSE UnknownJobId)

(***************************************************************************)
(* C3: after abortByJobId(j) returns (the stop-job step), no active job    *)
(* has external id j.                                                      *)
(***************************************************************************)
C3_StopRemovesEveryJobOfId ==
  [][\A j \in JobIds :
       StopJob(j) => (\A k \in ReqKeys' : activeRequests'[k].jobId # j)]_vars

(***************************************************************************)
(* C4: no two registerRequest calls return the same request id.            *)
(***************************************************************************)
C4_RequestIdsUnique ==
  \A a, b \in 1..Len(issued) : a # b => issued[a] # issued[b]

(***************************************************************************)
(* C5: every 'job:<id>' entry points to a request id present in the        *)
(* request map, and that request's jobId is <id>.                          *)
(***************************************************************************)
C5_NoDanglingJobKey ==
  \A k \in JobKeys :
    /\ ReqKey(activeRequests[k]) \in DOMAIN activeRequests
    /\ activeRequests[ReqKey(activeRequests[k])].jobId = k[2]

\* A job key is in place after another job has left the registry.
C5_Witness ==
  /\ JobKeys # {}
  /\ Len(issued) = 2
  /\ Cardinality(ReqKeys) = 1
  /\ \E h \in Handlers : Finished(h)

(***************************************************************************)
(* C6: a registerRequest called while the registry holds a job returns an  *)
(* id strictly greater than the id of every job in the registry.           *)
(***************************************************************************)
C6_IdsIncreaseInNonEmptyRegistry ==
  [][Len(issued') > Len(issued)
       => \A k \in ReqKeys : LastIssued(issued') > k[2]]_vars

\* Two jobs are registered at once, the second registered while the first was.
C6_Witness ==
  /\ Len(issued) = 2
  /\ Cardinality(ReqKeys) = 2

(***************************************************************************)
(* C7: once the cancellation handle of a streaming job is signaled, no     *)
(* data chunk is written to its stream.                                    *)
(***************************************************************************)
C7_NoChunkAfterSignal ==
  [][\A h \in Handlers :
       hs[h].aborted => DataChunks(hs'[h].body) = DataChunks(hs[h].body)]_vars

(***************************************************************************)
(* C8: a job cancelled while in progress increases abortedJobs by exactly  *)
(* one over its lifetime.                                                  *)
(***************************************************************************)
C8_CancelCountedOnce ==
  \A h \in Handlers : (Finished(h) /\ hs[h].aborted) => hs[h].nAborted = 1

(***************************************************************************)
(* C9: over a job's lifetime completedJobs + abortedJobs increases by at   *)
(* most one.                                                               *)
(***************************************************************************)
C9_CounterExclusivity ==
  \A h \in Handlers : hs[h].nCompleted + hs[h].nAborted <= 1

(***************************************************************************)
(* C10: a job that completes successfully increases completedJobs by       *)
(* exactly 1 and totalGenerated by the number of records delivered.        *)
(***************************************************************************)
C10_SuccessCountedOnce ==
  \A h \in Handlers :
    Succeeded(h) => (hs[h].nCompleted = 1 /\ hs[h].nGenerated = Delivered(h))

Last(body) == body[Len(body)]
EntriesOf(h) == {k \in ReqKeys : activeRequests[k].abortController = h}
PoolTasksOf(h) == Cardinality(TasksOf(h)) + Cardinality(RunningOf(h))

(***************************************************************************)
(* C11: a /generate-stream job that ends while cancelled with records      *)
(* still to emit has the aborted record, carrying the records emitted, as  *)
(* the last record of its body, and no done or generation_failed record.   *)
(***************************************************************************)
C11_AbortedStreamEndsWithAbortRecord ==
  [][\A h \in Handlers :
       (/\ hs[h].kind = "stream"
        /\ Live(h)
        /\ hs[h].aborted
        /\ hs[h].i < Head(hs[h].items)
        /\ hs'[h].pc = "done")
         => LET body == hs'[h].body
            IN /\ body # <<>>
               /\ Last(body).t = "aborted"
               /\ Last(body).completed = RecordsSent(body)
               /\ ~HasRecord(body, "done")
               /\ ~HasRecord(body, "generation_failed")]_vars

(***************************************************************************)
(* C13: a streaming job never has more than one pool task queued or        *)
(* running.                                                                *)
(***************************************************************************)
C13_OneTaskPerStreamChunk ==
  \A h \in Handlers : hs[h].kind \in {"stream", "multi"} => PoolTasksOf(h) <= 1

(***************************************************************************)
(* C16: a /generate schema item is generated inline if and only if its     *)
(* count is below 300 and streaming was not requested; otherwise it is     *)
(* dispatched to the worker pool.                                          *)
(***************************************************************************)
C16_DispatchPolicy ==
  \A h \in Handlers :
    (hs[h].kind = "generate" /\ hs[h].pc \in {"inline", "await"})
      => (hs[h].pc = "inline"
            <=> (Head(hs[h].items) < workerThreshold /\ ~hs[h].streaming))

(***************************************************************************)
(* C17: when the connection of a request closed before its response was    *)
(* complete, then by the time the handler returns the job's cancellation   *)
(* handle is signaled and the registry holds no entry of the job.          *)
(***************************************************************************)
C17_DisconnectCancels ==
  [][\A h \in Handlers :
       (Live(h) /\ hs[h].closed /\ hs'[h].pc = "done")
         => (hs'[h].aborted /\ \A k \in ReqKeys' : activeRequests'[k].abortController # h)]_vars

(***************************************************************************)
(* C18: abortAll() signals the handle of every job in the registry,        *)
(* returns their number and leaves the registry empty; the request-id      *)
(* counter never goes back in a step that leaves an entry in the registry. *)
(***************************************************************************)
C18_AbortAll ==
  [][/\ KillAll =>
          /\ \A k \in ReqKeys : hs'[activeRequests[k].abortController].aborted
          /\ abortAll(reg).aborted = {activeRequests[k].abortController : k \in ReqKeys}
          /\ abortAll(reg).result = Cardinality(ReqKeys)
          /\ activeRequests' = EmptyMap
     /\ requestIdCounter' < requestIdCounter => activeRequests' = EmptyMap]_vars

\* kill-all has acted on two registered jobs whose handlers are still running.
C18_Witness ==
  /\ Len(issued) = 2
  /\ requestIdCounter = 0
  /\ activeRequests = EmptyMap
  /\ \A h \in Handlers : Live(h) /\ hs[h].aborted /\ ~hs[h].closed

(***************************************************************************)
(* C19: abortByJobId with an id no job is mapped under, and                *)
(* abortByRequestId with an id that is not in the registry, return false,  *)
(* signal no handle and leave the registry and the counter unchanged.      *)
(***************************************************************************)
C19_UnknownIdIsNoOp ==
  [][/\ \A j \in JobIds :
          (StopJob(j) /\ JobKey(j) \notin DOMAIN activeRequests)
            => /\ abortByJobId(reg, j).result = FALSE
               /\ abortByJobId(reg, j).aborted = {}
               /\ hs' = hs
               /\ UNCHANGED <<activeRequests, requestIdCounter>>
     /\ \A r \in RequestIds :
          (Kill(r) /\ ReqKey(r) \notin DOMAIN activeRequests)
            => /\ abortByRequestId(reg, r).result = FALSE
               /\ abortByRequestId(reg, r).aborted = {}
               /\ hs' = hs
               /\ UNCHANGED <<activeRequests, requestIdCounter>>]_vars

\* stop-job has acted for an id the registry did not map: only the pool's own
\* controller was aborted, the registered job's handle is not signaled.
C19_Witness ==
  \E h \in Handlers :
    /\ calls[h].active /\ calls[h].aborted
    /\ ~hs[h].aborted
    /\ EntriesOf(h) # {}
    /\ JobKeys = {}

(***************************************************************************)
(* C20: once a handler that registered a job has finished, the registry    *)
(* holds no entry of that job; when every handler has finished the         *)
(* registry is empty and the active count is 0.                            *)
(***************************************************************************)
C20_NoEntryAfterHandler ==
  /\ \A h \in Handlers : Finished(h) => EntriesOf(h) = {}
  /\ (\A h \in Handlers : Finished(h))
       => (activeRequests = EmptyMap /\ getActiveCount(reg) = 0)

\* Two registered jobs have finished, one with a success and one cancelled.
C20_Witness ==
  /\ Len(issued) = 2
  /\ \A h \in Handlers : Finished(h)
  /\ \E h \in Handlers : hs[h].response.status = 200
  /\ \E h \in Handlers : hs[h].aborted

(***************************************************************************)
(* C12: a /generate-stream of count C that is neither aborted nor failing, *)
(* with s the chunk size clamped into [500, 5000], writes exactly          *)
(* ceil(C/s) data records followed by exactly one done record; data record *)
(* i (from 0) has chunk = i, holds min(s, C - i*s) records and has         *)
(* progress.completed = min((i+1)*s, C).                                   *)
(***************************************************************************)
C12_StreamChunkRecords ==
  [][\A h \in Handlers :
       (/\ hs[h].kind = "stream"
        /\ Live(h)
        /\ ~hs[h].aborted
        /\ hs'[h].pc = "done"
        /\ ~HasRecord(hs'[h].body, "generation_failed"))
         => LET C == Head(hs[h].items)
                s == hs[h].chunkSize
                n == Ceil(C, s)
                body == hs'[h].body
            IN /\ s \in minStreamChunk..maxStreamChunk
               /\ \E c \in LongChunkSizes \cup ChunkSizes :
                    s = (IF c < 500 THEN 500 ELSE IF c > 5000 THEN 5000 ELSE c)
               /\ Len(body) = n + 1
               /\ Last(body).t = "done"
               /\ \A i \in 0..(n - 1) :
                    /\ body[i + 1].t = "chunk"
                    /\ body[i + 1].chunk = i
                    /\ body[i + 1].size = Min(s, C - i * s)
                    /\ body[i + 1].data = Min(s, C - i * s)
                    /\ body[i + 1].completed = Min((i + 1) * s, C)]_vars

\* A stream of three chunks, the last one shorter, has completed.
C12_Witness ==
  /\ Finished(1)
  /\ hs[1].kind = "stream"
  /\ ~hs[1].aborted
  /\ DataChunks(hs[1].body) = 3
  /\ RecordsSent(hs[1].body) = 1001
  /\ Last(hs[1].body).t = "done"

(***************************************************************************)
(* C14: the result of a fanned-out job is the concatenation of its chunk   *)
(* outputs in submission order, whatever order the tasks complete in: the  *)
(* records of chunk i precede those of chunk i+1 and the records of a      *)
(* chunk keep the order the task produced them.                            *)
(***************************************************************************)
C14_ResultInSubmissionOrder ==
  fan.pc = "done" =>
    /\ Len(fan.allData) = fan.count
    /\ \A p \in 1..(Len(fan.allData) - 1) :
         LET a == fan.allData[p]
             b == fan.allData[p + 1]
         IN \/ a[1] = b[1] /\ b[2] = a[2] + 1
            \/ b[1] = a[1] + 1 /\ b[2] = 1 /\ a[2] = fan.chunks[a[1]]
    /\ fan.allData[1] = <<1, 1>>

\* A fan-out of three chunks whose last task settled first has been gathered.
C14_Witness ==
  /\ fan.pc = "done"
  /\ Len(fan.chunks) = 3
  /\ fan.order = <<3, 1, 2>>

DataRecs(body, k) ==
  {p \in 1..Len(body) : body[p].t = "chunk" /\ body[p].collection = k}
CompleteRecs(body, k) ==
  {p \in 1..Len(body) : body[p].t = "collectionComplete" /\ body[p].collection = k}
RECURSIVE SumData(_, _)
SumData(body, P) ==
  IF P = {} THEN 0
  ELSE LET p == CHOOSE x \in P : TRUE IN body[p].data + SumData(body, P \ {p})

(***************************************************************************)
(* C28: in a multi-schema stream every data chunk of collection k is       *)
(* written before the collectionComplete record of k, which is written     *)
(* before any data chunk of collection k+1; recordsSent of a               *)
(* collectionComplete record is the number of records in the data chunks   *)
(* of its collection; the chunk size is chunkSize clamped into [50, 1000]. *)
(***************************************************************************)
C28_CollectionsInSequence ==
  \A h \in Handlers :
    hs[h].kind = "multi" =>
      LET body == hs[h].body
      IN /\ \A k \in 1..3 :
              \A c \in CompleteRecs(body, k) :
                /\ \A d \in DataRecs(body, k) : d < c
                /\ \A d \in DataRecs(body, k + 1) : c < d
                /\ body[c].size = SumData(body, DataRecs(body, k))
         /\ \A k \in 1..3 :
              \A d \in DataRecs(body, k + 1) : CompleteRecs(body, k) # {}
         /\ Live(h) =>
              /\ hs[h].chunkSize \in 50..1000
              /\ \E c \in LongMultiChunkSizes \cup ChunkSizes :
                   hs[h].chunkSize = (IF c < 50 THEN 50 ELSE IF c > 1000 THEN 1000 ELSE c)
              /\ \A p \in 1..Len(body) :
                   body[p].t = "chunk" =>
                     /\ body[p].size <= hs[h].chunkSize
                     /\ body[p].data = body[p].size
                     /\ (p < Len(body) /\ body[p + 1].t = "chunk")
                          => body[p].size = hs[h].chunkSize

\* A stream of two collections, the first of two chunks, has completed.
C28_Witness ==
  /\ Finished(1)
  /\ hs[1].kind = "multi"
  /\ Cardinality(DataRecs(hs[1].body, 1)) = 2
  /\ Cardinality(DataRecs(hs[1].body, 2)) = 1
  /\ CompleteRecs(hs[1].body, 1) # {} /\ CompleteRecs(hs[1].body, 2) # {}
  /\ Last(hs[1].body).t = "done"

(***************************************************************************)
(* C29: when chunk generation fails in a single-schema or multi-schema     *)
(* stream, exactly one generation_failed record is written, as the last    *)
(* line, and its completed field is the number of records in the data      *)
(* chunks already written.                                                 *)
(***************************************************************************)
C29_FailureRecordCountsWritten ==
  \A h \in Handlers :
    (hs[h].kind \in {"stream", "multi"} /\ HasRecord(hs[h].body, "generation_failed"))
      => LET body == hs[h].body
         IN /\ Cardinality({p \in 1..Len(body) : body[p].t = "generation_failed"}) = 1
            /\ Last(body).t = "generation_failed"
            /\ Last(body).completed = RecordsSent(body)

(***************************************************************************)
(* C22: POST /generate is rejected with a validation error, without        *)
(* registering a job, unless exactly one of the body fields schema and     *)
(* schemas is present.                                                     *)
(***************************************************************************)
C22_ExactlyOneSchemaField ==
  [][\A h \in Handlers :
       (hs[h].pc = "idle" /\ hs'[h].pc # "idle" /\ hs'[h].kind = "generate")
         => IF hs'[h].fields \in {"schema", "schemas"}
            THEN Len(issued') = Len(issued) + 1
            ELSE /\ issued' = issued
                 /\ UNCHANGED <<activeRequests, requestIdCounter>>
                 /\ hs'[h].pc = "done"
                 /\ hs'[h].response.status = 400
                 /\ hs'[h].response.code = "VALIDATION_ERROR"]_vars

(***************************************************************************)
(* C23: the streaming option of POST /generate does not change the         *)
(* response: every schema item that is generated successfully contributes  *)
(* exactly its count records to results and to totalRecordsGenerated.      *)
(***************************************************************************)
C23_StreamingOptionIgnored ==
  [][\A h \in Handlers :
       (/\ hs[h].kind = "generate"
        /\ hs[h].pc = "resume"
        /\ hs[h].pending.name = "ok"
        /\ hs'[h].pc = "loop")
         => /\ hs[h].pending.n = Head(hs[h].items)
            /\ hs'[h].totalGenerated = hs[h].totalGenerated + Head(hs[h].items)]_vars

(***************************************************************************)
(* C30: the abort signal store is best effort.  A stop-job request cancels *)
(* locally and replies with success whether the store is disabled, not     *)
(* connected or its write fails; checkAbortSignal returns false whenever   *)
(* the store is unavailable, the read fails or no job id is given.         *)
(***************************************************************************)
C30_StoreIsBestEffort ==
  /\ [](\A jobId \in JobIds \cup {NoJobId}, readOk \in BOOLEAN :
          (~redisClient \/ ~readOk \/ jobId = NoJobId)
            => checkAbortSignal(jobId, readOk) = FALSE)
  /\ [][\A j \in JobIds :
          StopJob(j) =>
            /\ \A writeOk \in BOOLEAN :
                 /\ StopJobReply(j, writeOk).status = 200
                 /\ StopJobReply(j, writeOk).success
            /\ \A h \in Handlers :
                 (Live(h) /\ hs[h].jobId = j /\ JobKey(j) \in DOMAIN activeRequests
                    /\ activeRequests[JobKey(j)] = hs[h].requestId)
                   => hs'[h].aborted
            /\ \A h \in Handlers :
                 (calls[h].active /\ calls[h].jobId = j /\ j \in DOMAIN activeJobs
                    /\ activeJobs[j] = h)
                   => calls'[h].aborted
            /\ JobKey(j) \notin DOMAIN activeRequests']_vars

\* The store is connected, the write of the stop flag failed, and the job was
\* cancelled locally all the same.
C30_Witness ==
  /\ redisClient
  /\ redisKeys = {}
  /\ \E h \in Handlers : Live(h) /\ hs[h].jobId \in JobIds /\ hs[h].aborted

(***************************************************************************)
(* Observations on schemas and records.                                    *)
(***************************************************************************)
PrepareCalls == {"schemaService.prepareSchema", "worker.prepareSchema"}
GenerateCalls == {"generatorService.generateBatch", "worker.generate"}

\* The sub-schemas directly below a node, under any keyword.
Children(node) ==
  (IF Has(node, "properties")
   THEN {node.properties[key] : key \in DOMAIN node.properties} ELSE {})
  \cup (IF Has(node, "items") THEN Elems(node.items.nodes) ELSE {})
  \cup (IF Has(node, "additionalProperties") /\ node.additionalProperties.isSchema
        THEN {node.additionalProperties.node} ELSE {})
  \cup (IF Has(node, "anyOf") THEN Elems(node.anyOf) ELSE {})

\* Some node of the schema, at any depth, has a field $id.
RECURSIVE HasIdAnywhere(_)
HasIdAnywhere(node) ==
  Has(node, "$id") \/ \E child \in Children(node) : HasIdAnywhere(child)

\* Every object node with a properties map of the input has, in the prepared
\* schema, the additionalProperties that the mode asks for.
RECURSIVE Enforced(_, _, _)
Enforced(input, prepared, randomMode) ==
  /\ (isObjectType(input) /\ Has(input, "properties"))
       => IF randomMode
          THEN (~Has(input, "additionalProperties")
                  \/ input.additionalProperties = Flag(FALSE))
                 => /\ Has(prepared, "additionalProperties")
                    /\ prepared.additionalProperties = Flag(TRUE)
          ELSE /\ Has(prepared, "additionalProperties")
               /\ prepared.additionalProperties = Flag(FALSE)
  /\ Has(input, "properties") =>
       \A key \in DOMAIN input.properties :
         Enforced(input.properties[key], prepared.properties[key], randomMode)
  /\ Has(input, "items") =>
       \A x \in 1..Len(input.items.nodes) :
         Enforced(input.items.nodes[x], prepared.items.nodes[x], randomMode)
  /\ (/\ Has(input, "additionalProperties") /\ input.additionalProperties.isSchema
      /\ Has(prepared, "additionalProperties") /\ prepared.additionalProperties.isSchema)
       => Enforced(input.additionalProperties.node,
                   prepared.additionalProperties.node, randomMode)
  /\ Has(input, "anyOf") =>
       \A x \in 1..Len(input.anyOf) :
         Enforced(input.anyOf[x], prepared.anyOf[x], randomMode)

\* Every object node of the record has only keys that the properties map of
\* the corresponding schema node declares.
RECURSIVE Declared(_, _)
Declared(data, schema) ==
  CASE data.t = "object" ->
         Has(schema, "properties") =>
           /\ DOMAIN data.fields \subseteq DOMAIN schema.properties
           /\ \A key \in DOMAIN data.fields \cap DOMAIN schema.properties :
                Declared(data.fields[key], schema.properties[key])
    [] data.t = "array" ->
         Has(schema, "items") =>
           \A x \in 1..Len(data.elems) :
             IF schema.items.tuple
             THEN x <= Len(schema.items.nodes)
                    => Declared(data.elems[x], schema.items.nodes[x])
             ELSE Declared(data.elems[x], schema.items.nodes[1])
    [] OTHER -> TRUE

(***************************************************************************)
(* C21: POST /validate with a schema that validateSchema rejects replies   *)
(* with status 400 and error.code VALIDATION_ERROR, not with a 200.        *)
(***************************************************************************)
C21_RejectedSchemaIs400 ==
  (schemaCall.fn = "validate" /\ ~schemaCall.response.valid)
    => /\ schemaCall.response.status = 400
       /\ schemaCall.response.code = "VALIDATION_ERROR"

(***************************************************************************)
(* C24: schema preparation is deterministic and idempotent: what a call    *)
(* returns, from the cache or not, is what preparation computes for its    *)
(* schema and mode, and preparing that value again gives the same value.   *)
(***************************************************************************)
C24_PrepareIdempotent ==
  schemaCall.fn \in PrepareCalls \cup GenerateCalls =>
    LET worker == schemaCall.fn \in {"worker.prepareSchema", "worker.generate"}
        prepare(schema) == IF worker
                           THEN workerPrepared(schema, schemaCall.randomMode)
                           ELSE servicePrepared(schema)
    IN /\ schemaCall.prepared = prepare(schemaCall.schema)
       /\ prepare(schemaCall.prepared) = schemaCall.prepared

\* The worker served a schema from its cache, and preparation had changed it.
C24_Witness ==
  /\ schemaCall.fn = "worker.prepareSchema"
  /\ schemaCall.hit
  /\ schemaCall.prepared # schemaCall.schema

(***************************************************************************)
(* C25: after preparation no field $id remains at any depth of the         *)
(* prepared schema, under whatever keyword it was nested in the input.     *)
(***************************************************************************)
C25_NoIdRemains ==
  schemaCall.fn \in PrepareCalls \cup GenerateCalls
    => ~HasIdAnywhere(schemaCall.prepared)

(***************************************************************************)
(* C26: in the schema that reaches the record generator, on the inline     *)
(* path and on the pool path, every object node with a properties map has  *)
(* additionalProperties false in strict mode, and true in fuzz mode if the *)
(* input left it unset or false.                                           *)
(***************************************************************************)
C26_AdditionalPropertiesEnforced ==
  schemaCall.fn \in GenerateCalls
    => Enforced(schemaCall.schema, schemaCall.prepared, schemaCall.randomMode)

(***************************************************************************)
(* C27: in strict mode, whatever the faker primitive returns, the record   *)
(* handed on has at every object node only keys declared by the properties *)
(* map of the corresponding schema node.                                   *)
(***************************************************************************)
C27_OnlyDeclaredKeys ==
  (schemaCall.fn \in GenerateCalls /\ ~schemaCall.randomMode)
    => Declared(schemaCall.record, schemaCall.prepared)

(***************************************************************************)
(* C33: each call of GeneratorPool.generate ends in exactly one of three   *)
(* outcomes with the matching counter effect: success (completedJobs +1,   *)
(* totalGenerated increased by the records asked for), JobAbortedError     *)
(* when a pool task was aborted (abortedJobs +1 only), or GenerationError  *)
(* for any other task exception (no counter changed); the counters never   *)
(* decrease.                                                               *)
(***************************************************************************)
C33_ThreeOutcomes ==
  [][/\ stats'.totalGenerated >= stats.totalGenerated
     /\ stats'.completedJobs >= stats.completedJobs
     /\ stats'.abortedJobs >= stats.abortedJobs
     /\ \A h \in Handlers :
          (calls[h].active /\ ~calls'[h].active) =>
            LET c == calls[h]
                outcome == hs'[h].pending.name
            IN CASE c.rejected = "none" ->
                      /\ outcome = "ok"
                      /\ stats' = [stats EXCEPT !.completedJobs = @ + 1,
                                                !.totalGenerated = @ + c.count]
                 [] c.rejected = "AbortError" ->
                      /\ outcome = "JobAbortedError"
                      /\ stats' = [stats EXCEPT !.abortedJobs = @ + 1]
                 [] OTHER ->
                      /\ outcome = "GenerationError"
                      /\ stats' = stats]_vars

\* After a call that succeeded, a call has ended with a generation error and
\* the counters are those of the success.
C33_Witness ==
  /\ stats = [totalGenerated |-> 500, completedJobs |-> 1, abortedJobs |-> 0]
  /\ \E h \in Handlers : hs[h].pc = "resume" /\ hs[h].pending.name = "GenerationError"

(***************************************************************************)
(* C34: for every count >= 50 and every number of threads T >= 0 the chunk *)
(* counts of the fan-out are between 1 and chunkSize, only the last may be *)
(* smaller than chunkSize, and they sum to count, so that a successful     *)
(* fanned-out job returns exactly count records.                           *)
(***************************************************************************)
C34_ChunksSumToCount ==
  fan.pc # "idle" =>
    LET n == Len(fan.chunks)
        workerCount == Min(threads * overSubscription, Ceil(fan.count, optimalChunkSize))
    IN /\ n >= 1
       /\ SumSeq(fan.chunks) = fan.count
       /\ IF workerCount = 0
          THEN fan.chunks = <<fan.count>>
          ELSE LET chunkSize == Ceil(fan.count, workerCount)
               IN /\ \A k \in 1..n : fan.chunks[k] \in 1..chunkSize
                  /\ \A k \in 1..(n - 1) : fan.chunks[k] = chunkSize
       /\ fan.pc = "done" => Len(fan.allData) = fan.count

\* A fan-out whose last chunk is smaller than the others has been gathered.
C34_Witness ==
  /\ fan.pc = "done"
  /\ Len(fan.chunks) = 3
  /\ fan.chunks[3] < fan.chunks[1]
  /\ Len(fan.allData) = fan.count

(***************************************************************************)
(* C35: after a pool task of a job has failed with a cancellation error no *)
(* further pool task is submitted for that job: the fan-out resubmits no   *)
(* chunk, /generate dispatches no remaining schema item, and a stream      *)
(* requests no further chunk.                                              *)
(***************************************************************************)
C35_NoTaskAfterCancellation ==
  [][\A h \in Handlers :
       (calls[h].rejected = "AbortError" \/ hs[h].nAborted > 0)
         => /\ ~(~calls[h].active /\ calls'[h].active)
            /\ Cardinality(TasksOf(h))' + Cardinality(RunningOf(h))'
                 <= Cardinality(TasksOf(h)) + Cardinality(RunningOf(h))]_vars

\* A call was cancelled while the handler still had work left to request.
C35_Witness ==
  \E h \in Handlers :
    /\ hs[h].pc = "resume"
    /\ hs[h].pending.name = "JobAbortedError"
    /\ \/ hs[h].kind = "generate" /\ Len(hs[h].items) > 1
       \/ hs[h].kind = "stream" /\ hs[h].i + hs[h].chunkSize < Head(hs[h].items)

(***************************************************************************)
(* C36: after the registry cancellation handle of a job has been signaled  *)
(* its handler starts no new generation step: /generate dispatches no      *)
(* further schema item, inline or to the pool, and the stream handlers     *)
(* request no further chunk from the pool.                                 *)
(***************************************************************************)
C36_NoStepAfterSignal ==
  [][\A h \in Handlers :
       hs[h].aborted
         => /\ ~(~calls[h].active /\ calls'[h].active)
            /\ ~(hs[h].pc # "inline" /\ hs'[h].pc = "inline")
            /\ ~(hs[h].pc = "loop" /\ hs'[h].pc = "await")]_vars

\* A handler whose handle is signaled is at the head of its loop with work
\* left to do.
C36_Witness ==
  \E h \in Handlers :
    /\ hs[h].aborted
    /\ hs[h].pc = "loop"
    /\ hs[h].items # <<>>
    /\ hs[h].kind \in {"stream", "multi"} => hs[h].i < Head(hs[h].items)

(***************************************************************************)
(* C37: the unregisterRequest that a handler performs when it finishes or  *)
(* when its client disconnects removes at most the entry that this handler *)
(* registered: it never removes the entry, or the external-id mapping, of  *)
(* a different job that is still running.                                  *)
(***************************************************************************)
OwnsEntry(g) ==
  /\ Live(g)
  /\ ReqKey(hs[g].requestId) \in DOMAIN activeRequests
  /\ activeRequests[ReqKey(hs[g].requestId)].abortController = g

OwnsMapping(g) ==
  /\ OwnsEntry(g)
  /\ hs[g].jobId # NoJobId
  /\ JobKey(hs[g].jobId) \in DOMAIN activeRequests
  /\ activeRequests[JobKey(hs[g].jobId)] = hs[g].requestId

C37_UnregisterRemovesOwnEntryOnly ==
  [][\A h, g \in Handlers :
       (/\ h # g
        /\ \/ Live(h) /\ hs'[h].pc = "done"
           \/ ~hs[h].closed /\ hs'[h].closed)
         => /\ OwnsEntry(g) => OwnsEntry(g)'
            /\ OwnsMapping(g) => OwnsMapping(g)']_vars

(***************************************************************************)
(* C38: while a job that was registered with external id j is in the       *)
(* registry, abortByJobId(j) returns true and signals the cancellation     *)
(* handle of a job registered with j, also after another job that used the *)
(* same external id has been unregistered.                                 *)
(***************************************************************************)
C38_RegisteredJobIsReachableById ==
  \A j \in JobIds :
    (\E k \in ReqKeys : activeRequests[k].jobId = j)
      => /\ abortByJobId(reg, j).result
         /\ \E k \in ReqKeys :
              /\ activeRequests[k].jobId = j
              /\ activeRequests[k].abortController \in abortByJobId(reg, j).aborted

(***************************************************************************)
(* C39: every GeneratorPool.generate call that was given a job id and has  *)
(* not yet settled is reachable through abortJob(jobId), which returns     *)
(* true and aborts that call's pool tasks, also when concurrent calls      *)
(* carry the same job id; once every call has settled activeJobs is empty. *)
(***************************************************************************)
C39_UnsettledCallIsReachable ==
  /\ \A h \in Handlers :
       (calls[h].active /\ calls[h].jobId # NoJobId)
         => /\ abortJob(calls[h].jobId).result
            /\ h \in abortJob(calls[h].jobId).aborted
  /\ (\A h \in Handlers : ~calls[h].active) => activeJobs = EmptyMap

(***************************************************************************)
(* C40: when a GeneratorPool.generate call settles, none of the pool tasks *)
(* it submitted is still queued or running: after one chunk of a fan-out   *)
(* failed, the remaining chunk tasks do not keep occupying executors once  *)
(* the caller has received the failure.                                    *)
(***************************************************************************)
C40_NoTaskOutlivesItsCall ==
  /\ \A k \in 1..Len(poolQueue) : poolQueue[k].owner # NoOwner
  /\ \A k \in 1..Len(poolRunning) : poolRunning[k].owner # NoOwner

(***************************************************************************)
(* C31: on graceful shutdown the cancellation handle of every job in the   *)
(* registry, with or without an external job id, is signaled before the    *)
(* worker pool is destroyed, and the store connection is closed after the  *)
(* pool is destroyed, on every exit path of the shutdown.                  *)
(***************************************************************************)
C31_ShutdownReleasesEverything ==
  /\ [][(lifecycle.pc = "destroy" /\ lifecycle'.poolDestroyed)
          => \A k \in ReqKeys : hs[activeRequests[k].abortController].aborted]_vars
  /\ []((lifecycle.pc \in {"closed", "failed"} /\ redisClient)
          => (lifecycle.poolDestroyed /\ lifecycle.quitCalled))

====
